---- MODULE Spec2Model ----
(***************************************************************************)
(* Model of the assembly IDE's definition/reference index                   *)
(* (tools/asm_ide/reference_finder.py) and of the editor plumbing that      *)
(* drives it (tools/asm_ide/main_window.py, tab_widget.py, code_area.py).   *)
(*                                                                         *)
(* A source line is a sequence of tokens; a file text is a sequence of     *)
(* lines.  Python dictionaries are functions with an explicit DOMAIN.  The  *)
(* reference sets held by the published and by the private dictionary are  *)
(* Python objects that dict.copy() shares; `shared` names the keys whose   *)
(* set object is the same in both dictionaries.                            *)
(***************************************************************************)
EXTENDS Integers, Sequences, FiniteSets, TLC

VARIABLES
    root_path,              \* ReferenceFinder.root_path / MainWindow._root_path
    disk,                   \* file name -> text on disk
    unreadable,             \* the files whose read raises an error
    buffers,                \* file name of an open tab -> text of its document
    definitions,            \* ReferenceFinder.definitions (published)
    _definitions,           \* ReferenceFinder._definitions (private)
    name_to_references,     \* ReferenceFinder.name_to_references (published)
    _name_to_references,    \* ReferenceFinder._name_to_references (private)
    shared,                 \* names whose reference set is one object in both
    _local_copies,          \* ReferenceFinder._local_copies
    _currently_open_file,   \* ReferenceFinder._currently_open_file
    run,                    \* thread -> position and locals of its run()
    queue,                  \* QThreadPool: the runs waiting for the one worker
    timer,                  \* file name -> ticks left of its tab's running timer
    since_edit,             \* ticks since the latest text modification, capped
    loaded,                 \* a complete parse has published (a project is open)
    edits,                  \* number of text edits made so far
    runs,                   \* number of runs requested so far
    requested,              \* thread -> inputs and texts its run was requested with
    startPub,               \* thread -> index published when its run started
    lastRun,                \* outcome of the most recently ended run
    ap,                     \* the AssemblyParser: its fields and its scan
    fp,                     \* the FormulaParser: its fields
    ret,                    \* what the latest call on a parser returned
    _position_stack         \* MenuToolbar._position_stack: the TextPositionStack

finderVars == <<definitions, _definitions, name_to_references,
                _name_to_references, shared, _local_copies,
                _currently_open_file>>
envVars == <<root_path, disk, unreadable, buffers, edits>>
ideVars == <<queue, timer, since_edit>>
obsVars == <<requested, startPub, lastRun>>
parserVars == <<ap, fp, ret>>
navVars == <<_position_stack>>
indexVars == <<root_path, disk, unreadable, buffers, definitions, _definitions,
               name_to_references, _name_to_references, shared, _local_copies,
               _currently_open_file, run, queue, timer, since_edit, loaded,
               edits, runs, requested, startPub, lastRun>>
vars == <<indexVars, parserVars, navVars>>

----------------------------------------------------------------------------
(* Bounds of the model. *)

MaxStack == 3
MaxPos == 1

MaxLines == 2
MaxEdits == 2
MaxRuns == 2

\* AppSettingKeys.APP_REPARSE_DELAY_MS, in ticks of the model's clock.
ReparseDelay == 2

----------------------------------------------------------------------------
(* Values. *)

\* No parser object has been constructed.
NoObject == [pc |-> "none"]

\* A pathlib.Path: anchored under the absolute root or relative.
MkPath(isAbs, f) == [abs |-> isAbs, file |-> f]

\* Python's None, where a path is expected.
None == MkPath(FALSE, "None")

\* [smb3_path] + self.prg_files, in scan order.
ScanFiles == <<"smb3.asm", "PRG/prg000.asm">>

FileNames == {ScanFiles[i] : i \in 1..Len(ScanFiles)}

AbsRoot == "/proj"
CwdRoot == "."

\* root / name
Join(root, f) == MkPath(root = AbsRoot, f)

\* path.relative_to(root) succeeds only when both are absolute or both relative.
RelativeToOk(p, root) == p.abs = (root = AbsRoot)

RelativeTo(p) == MkPath(FALSE, p.file)

\* The lines a user types in this model.
LineCatalog ==
    { <<"A", "=", "1">>,
      <<"B", "=", "2">>,
      <<"B", ":", "LDA", "A", ";", "B">> }

\* [A-Za-z_][A-Za-z0-9_]* matches inside these tokens.
IdentTokens == {"A", "B", "LDA"}

NumberTokens == {"1", "2"}

IdentsIn(tok) ==
    IF tok \in IdentTokens THEN {tok}
    ELSE IF tok = ".ds" THEN {"ds"}
    ELSE {}

\* Python's `name in data` on the raw text: substring of some token.
OccursIn(name, tok) ==
    \/ name = tok
    \/ name = "A" /\ tok = "LDA"
    \/ name = "ds" /\ tok = ".ds"

EmptyDict == [x \in {} |-> {}]

DictSet(d, k, v) == [x \in (DOMAIN d) \cup {k} |-> IF x = k THEN v ELSE d[x]]

DictPop(d, k) == [x \in (DOMAIN d) \ {k} |-> d[x]]

Restrict(d, S) == [x \in (DOMAIN d) \cap S |-> d[x]]

----------------------------------------------------------------------------
(* util.strip_comment *)

CommentStart(line) ==
    IF \E i \in 1..Len(line) : line[i] = ";"
    THEN CHOOSE i \in 1..Len(line) :
            line[i] = ";" /\ \A j \in 1..(i - 1) : line[j] # ";"
    ELSE Len(line) + 1

strip_comment(line) == SubSeq(line, 1, CommentStart(line) - 1)

----------------------------------------------------------------------------
(* ReferenceDefinition and the regular expressions. *)

ReferenceDefinition(name, value, origin_file, origin_line_no, type, line) ==
    [name |-> name, value |-> value, origin_file |-> origin_file,
     origin_line_no |-> origin_line_no, type |-> type, line |-> line]

\* _CONST_REGEX: identifier, "=", numeric literal.
ConstMatches(cl) ==
    {i \in 1..(Len(cl) - 2) :
        cl[i] \in IdentTokens /\ cl[i + 1] = "=" /\ cl[i + 2] \in NumberTokens}

\* _RAM_REGEX: identifier, ":", ".ds" and the rest of the line.
RamMatches(cl) ==
    {i \in 1..(Len(cl) - 2) :
        cl[i] \in IdentTokens /\ cl[i + 1] = ":" /\ cl[i + 2] = ".ds"}

\* _LABEL_REGEX: identifier, ":" and the rest of the line.
LabelMatches(cl) ==
    {i \in 1..(Len(cl) - 1) : cl[i] \in IdentTokens /\ cl[i + 1] = ":"}

First(S) == CHOOSE i \in S : \A j \in S : i <= j

\* The CONSTANT family: every match of the line, left to right.
RECURSIVE ConstDefinitions(_, _, _, _, _, _)
ConstDefinitions(defs, cl, i, line, line_no, rel_path) ==
    IF i > Len(cl) - 2 THEN defs
    ELSE IF i \in ConstMatches(cl)
    THEN ConstDefinitions(
             DictSet(defs, cl[i],
                     ReferenceDefinition(cl[i], <<cl[i + 2]>>, rel_path,
                                         line_no, "CONSTANT", line)),
             cl, i + 3, line, line_no, rel_path)
    ELSE ConstDefinitions(defs, cl, i + 1, line, line_no, rel_path)

\* ReferenceFinder._find_definitions_in_line: the first family that matches wins.
find_definitions_in_line(defs, line, line_no, rel_path) ==
    LET cl == strip_comment(line) IN
    IF ConstMatches(cl) # {}
    THEN ConstDefinitions(defs, cl, 1, line, line_no, rel_path)
    ELSE IF RamMatches(cl) # {}
    THEN LET i == First(RamMatches(cl)) IN
         DictSet(defs, cl[i],
                 ReferenceDefinition(cl[i], SubSeq(cl, i + 2, Len(cl)),
                                     rel_path, line_no, "RAM_VAR", line))
    ELSE IF LabelMatches(cl) # {}
    THEN LET i == First(LabelMatches(cl)) IN
         DictSet(defs, cl[i],
                 ReferenceDefinition(cl[i], SubSeq(cl, i + 2, Len(cl)),
                                     rel_path, line_no, "LABEL", line))
    ELSE defs

\* The loop of ReferenceFinder._parse_file_for_definitions over the lines.
RECURSIVE DefinitionsOfLines(_, _, _, _)
DefinitionsOfLines(defs, lines, line_no, rel_path) ==
    IF line_no > Len(lines) THEN defs
    ELSE DefinitionsOfLines(
             find_definitions_in_line(defs, lines[line_no], line_no, rel_path),
             lines, line_no + 1, rel_path)

\* ReferenceFinder._remove_all_definitions_of_file
remove_all_definitions_of_file(defs, rel_path) ==
    Restrict(defs, {n \in DOMAIN defs : defs[n].origin_file # rel_path})

----------------------------------------------------------------------------
(* The reference dictionaries.  h = [pub, priv, shared]. *)

Heap(pub, priv, sh) == [pub |-> pub, priv |-> priv, shared |-> sh]

\* The names the reference regex finds in a comment-stripped line.
NamesInLine(cl) == UNION {IdentsIn(cl[i]) : i \in 1..Len(cl)}

\* ReferenceFinder._find_references_in_line: _name_to_references[name].add(...)
find_references_in_line(h, line, line_no, rel_path) ==
    LET names == NamesInLine(strip_comment(line))
        ref(n) == ReferenceDefinition(n, <<>>, rel_path, line_no, "UNSET", line)
    IN  [h EXCEPT
           !.priv = [x \in (DOMAIN h.priv) \cup names |->
                       IF x \in names
                       THEN (IF x \in DOMAIN h.priv THEN h.priv[x] ELSE {})
                            \cup {ref(x)}
                       ELSE h.priv[x]],
           !.pub = [x \in DOMAIN h.pub |->
                       IF x \in names \cap h.shared
                       THEN h.pub[x] \cup {ref(x)}
                       ELSE h.pub[x]]]

\* The loop of ReferenceFinder._parse_file_for_references over the lines.
RECURSIVE ReferencesOfLines(_, _, _, _)
ReferencesOfLines(h, lines, line_no, rel_path) ==
    IF line_no > Len(lines) THEN h
    ELSE ReferencesOfLines(
             find_references_in_line(h, lines[line_no], line_no, rel_path),
             lines, line_no + 1, rel_path)

\* ReferenceFinder._remove_reference_of_file
remove_reference_of_file(h, force_parse, is_open_file, rel_path) ==
    IF force_parse \/ ~is_open_file THEN h
    ELSE [h EXCEPT
            !.priv = [x \in DOMAIN h.priv |->
                        {r \in h.priv[x] : r.origin_file # rel_path}],
            !.pub = [x \in DOMAIN h.pub |->
                        IF x \in h.shared
                        THEN {r \in h.pub[x] : r.origin_file # rel_path}
                        ELSE h.pub[x]]]

\* The definitions whose sites _cleanup_references removes: self.definitions.
CleanupDefinitions(published, private) == published

\* ReferenceFinder._cleanup_references
cleanup_references(h, defs) ==
    LET keep(x, S) == {r \in S : ~(/\ r.origin_file = defs[x].origin_file
                                   /\ r.origin_line_no = defs[x].origin_line_no)}
    IN  [h EXCEPT
           !.priv = [x \in (DOMAIN h.priv) \cup (DOMAIN defs) |->
                       IF x \in DOMAIN defs
                       THEN keep(x, IF x \in DOMAIN h.priv THEN h.priv[x] ELSE {})
                       ELSE h.priv[x]],
           !.pub = [x \in DOMAIN h.pub |->
                       IF x \in h.shared \cap DOMAIN defs
                       THEN keep(x, h.pub[x])
                       ELSE h.pub[x]]]

\* any(value in data for value in added_definitions)
AnyOccurs(added, lines) ==
    \E n \in added : \E k \in 1..Len(lines) : \E i \in 1..Len(lines[k]) :
        OccursIn(n, lines[k][i])

----------------------------------------------------------------------------
(* State shared by the run() steps. *)

Threads == {"gui", "worker"}

\* The file the run read last and the text it got for it.
NoRead == [file |-> "None", text |-> <<>>]

\* caller: who called run, "direct", "on_open" (_on_open) or "pool" (the worker).
Idle == [pc |-> "idle", complete |-> FALSE, added |-> {}, idx |-> 0,
         read |-> NoRead, caller |-> "direct"]

\* _on_open after _parse_with_progress_dialog returned: open smb3.asm.
Opening == [Idle EXCEPT !.pc = "open"]

NoRun == [outcome |-> "none"]

NoRequest == [local_copies |-> EmptyDict, open_file |-> None, texts |-> EmptyDict]

NoIndex == [defs |-> EmptyDict, refs |-> EmptyDict]

\* The current text of every file: the unsaved tab text where a tab is open.
CurrentTexts ==
    [f \in FileNames |-> IF f \in DOMAIN buffers THEN buffers[f] ELSE disk[f]]

Published == [defs |-> definitions, refs |-> name_to_references]

H == Heap(name_to_references, _name_to_references, shared)

SetHeap(h) ==
    /\ name_to_references' = h.pub
    /\ _name_to_references' = h.priv
    /\ shared' = h.shared

\* `file_path not in self._local_copies`, else read the file from disk.
HasLocalCopy(path) == path \in DOMAIN _local_copies

CanRead(path) ==
    \/ HasLocalCopy(path)
    \/ RelativeToOk(path, root_path) /\ path.file \notin unreadable

TextOf(path) ==
    IF HasLocalCopy(path) THEN _local_copies[path] ELSE disk[path.file]

\* An exception leaves run(): nothing is published, the inputs are not cleared.
Raise(t) ==
    /\ run' = [run EXCEPT ![t] = Idle]
    /\ UNCHANGED loaded
    /\ lastRun' = [outcome |-> "failed"]
    /\ requested' = [requested EXCEPT ![t] = NoRequest]
    /\ startPub' = [startPub EXCEPT ![t] = NoIndex]

ReadOf(path) ==
    [file |-> path.file, text |-> TextOf(path)]

Goto(t, pc, idx, added, path) ==
    /\ run' = [run EXCEPT ![t].pc = pc, ![t].idx = idx, ![t].added = added,
                          ![t].read = ReadOf(path)]
    /\ UNCHANGED obsVars

----------------------------------------------------------------------------
(* ReferenceFinder.run, one step per file of each pass. *)

\* run, complete parse: _parse_all_files_for_definitions clears the private maps.
RunStartComplete(t) ==
    /\ run[t].pc = "start"
    /\ _currently_open_file = None
    /\ _definitions' = EmptyDict
    /\ _name_to_references' = EmptyDict
    /\ shared' = {}
    /\ run' = [run EXCEPT ![t].pc = "defs", ![t].complete = TRUE,
                          ![t].idx = 1, ![t].added = {}]
    /\ UNCHANGED <<definitions, name_to_references, _local_copies,
                   _currently_open_file, envVars, ideVars, loaded, runs,
                   obsVars>>

\* _parse_all_files_for_definitions: _parse_file_for_definitions of one file.
ParseFileForDefinitions(t) ==
    /\ run[t].pc = "defs"
    /\ LET path == Join(root_path, ScanFiles[run[t].idx]) IN
       IF ~CanRead(path)
       THEN /\ Raise(t)
            /\ UNCHANGED _definitions
       ELSE /\ _definitions' =
                   DefinitionsOfLines(_definitions, TextOf(path), 1,
                                      RelativeTo(path))
            /\ IF run[t].idx < Len(ScanFiles)
               THEN Goto(t, "defs", run[t].idx + 1, {}, path)
               ELSE Goto(t, "refs", 1, {}, path)
    /\ UNCHANGED <<definitions, name_to_references, _name_to_references,
                   shared, _local_copies, _currently_open_file, envVars,
                   ideVars, loaded, runs>>

\* run, incremental parse: _parse_current_file_for_definitions.
ParseCurrentFileForDefinitions(t) ==
    /\ run[t].pc = "start"
    /\ _currently_open_file # None
    /\ LET open == _currently_open_file
           copied == definitions
       IN
       IF ~RelativeToOk(open, root_path)
       THEN \* relative_to raises in _remove_all_definitions_of_file
            /\ Raise(t)
            /\ _definitions' = copied
            /\ SetHeap(Heap(name_to_references, name_to_references,
                            DOMAIN name_to_references))
       ELSE IF ~CanRead(open)
       THEN /\ Raise(t)
            /\ _definitions' =
                   remove_all_definitions_of_file(copied, RelativeTo(open))
            /\ SetHeap(Heap(name_to_references, name_to_references,
                            DOMAIN name_to_references))
       ELSE LET new == DefinitionsOfLines(
                           remove_all_definitions_of_file(copied,
                                                          RelativeTo(open)),
                           TextOf(open), 1, RelativeTo(open))
                removed == (DOMAIN definitions) \ (DOMAIN new)
                added == (DOMAIN new) \ (DOMAIN definitions)
            IN  /\ _definitions' = new
                \* self.name_to_references.pop(definition, None)
                /\ SetHeap(Heap(Restrict(name_to_references,
                                         (DOMAIN name_to_references) \ removed),
                                name_to_references,
                                (DOMAIN name_to_references) \ removed))
                /\ run' = [run EXCEPT ![t].pc = "refs", ![t].complete = FALSE,
                                      ![t].idx = 1, ![t].added = added,
                                      ![t].read = ReadOf(open)]
                /\ UNCHANGED obsVars
    /\ UNCHANGED <<definitions, _local_copies, _currently_open_file,
                   envVars, ideVars, loaded, runs>>

\* _parse_file_for_references of one file of the second pass.
ParseFileForReferences(t) ==
    /\ run[t].pc = "refs"
    /\ LET path == Join(root_path, ScanFiles[run[t].idx])
           is_open_file == path = _currently_open_file
           force_parse == run[t].complete
       IN
       IF ~CanRead(path)
       THEN /\ Raise(t)
            /\ UNCHANGED <<name_to_references, _name_to_references, shared>>
       ELSE /\ IF ~(force_parse \/ is_open_file)
                  /\ ~AnyOccurs(run[t].added, TextOf(path))
               THEN UNCHANGED <<name_to_references, _name_to_references, shared>>
               ELSE SetHeap(ReferencesOfLines(
                        remove_reference_of_file(H, force_parse, is_open_file,
                                                 RelativeTo(path)),
                        TextOf(path), 1, RelativeTo(path)))
            /\ IF run[t].idx < Len(ScanFiles)
               THEN Goto(t, "refs", run[t].idx + 1, run[t].added, path)
               ELSE Goto(t, "cleanup", 0, run[t].added, path)
    /\ UNCHANGED <<definitions, _definitions, _local_copies,
                   _currently_open_file, envVars, ideVars, loaded, runs>>

\* self._cleanup_references()
CleanupReferences(t) ==
    /\ run[t].pc = "cleanup"
    /\ SetHeap(cleanup_references(H, CleanupDefinitions(definitions,
                                                        _definitions)))
    /\ run' = [run EXCEPT ![t].pc = "publish"]
    /\ UNCHANGED <<definitions, _definitions, _local_copies,
                   _currently_open_file, envVars, ideVars, loaded, runs,
                   obsVars>>

\* "Copy over new state" and self._local_copies.clear()
Publish(t) ==
    /\ run[t].pc = "publish"
    /\ definitions' = _definitions
    /\ name_to_references' = _name_to_references
    /\ shared' = DOMAIN _name_to_references
    /\ _local_copies' = EmptyDict
    /\ run' = [run EXCEPT ![t] = IF run[t].caller = "on_open"
                                 THEN Opening ELSE Idle]
    /\ lastRun' = [outcome |-> "ok",
                   complete |-> run[t].complete,
                   open_file |-> requested[t].open_file,
                   texts |-> requested[t].texts,
                   defs |-> _definitions,
                   refs |-> _name_to_references]
    /\ requested' = [requested EXCEPT ![t] = NoRequest]
    /\ startPub' = [startPub EXCEPT ![t] = NoIndex]
    /\ loaded' = (loaded \/ run[t].complete)
    /\ UNCHANGED <<_definitions, _name_to_references, _currently_open_file,
                   envVars, ideVars, runs>>

RunStep(t) ==
    \/ RunStartComplete(t)
    \/ ParseFileForDefinitions(t)
    \/ ParseCurrentFileForDefinitions(t)
    \/ ParseFileForReferences(t)
    \/ CleanupReferences(t)
    \/ Publish(t)

----------------------------------------------------------------------------
(* The editor: tabs, typing, saving. *)

GuiIdle == run["gui"].pc = "idle"

\* No timer has run out: the event loop handles a timeout that is due before
\* it handles later user input.
NoTimerDue == \A f \in DOMAIN timer : timer[f] > 0

\* CodeArea._maybe_trigger_timer on the document's contentsChange signal:
\* characters were added or removed, so the tab's own timer is (re)started.
maybe_trigger_timer(f, old_text, new_text) ==
    IF old_text = new_text
    THEN UNCHANGED <<timer, since_edit>>
    ELSE /\ timer' = DictSet(timer, f, ReparseDelay)
         /\ since_edit' = 0

\* QTextDocument.setPlainText on the new, empty document of a tab.
SetPlainText(f, text) == maybe_trigger_timer(f, <<>>, text)

\* TabWidget._open_tab: setPlainText(abs_path.read_text())
OpenTab(f) ==
    /\ GuiIdle
    /\ f \notin DOMAIN buffers
    /\ f \notin unreadable
    /\ loaded
    /\ NoTimerDue
    /\ buffers' = DictSet(buffers, f, disk[f])
    /\ SetPlainText(f, disk[f])
    /\ UNCHANGED <<root_path, disk, unreadable, edits, finderVars, run, queue,
                   loaded, runs, obsVars>>

\* The user types a line at the end of the document, or deletes its first line.
EditedTexts(text) ==
    {Append(text, l) : l \in {c \in LineCatalog : Len(text) < MaxLines}}
    \cup {Tail(text) : x \in {y \in {0} : Len(text) > 0}}

TypeText(f) ==
    /\ GuiIdle
    /\ f \in DOMAIN buffers
    /\ edits < MaxEdits
    /\ NoTimerDue
    /\ \E text \in EditedTexts(buffers[f]) :
          /\ buffers' = [buffers EXCEPT ![f] = text]
          /\ maybe_trigger_timer(f, buffers[f], text)
    /\ edits' = edits + 1
    /\ UNCHANGED <<root_path, disk, unreadable, finderVars, run, queue, loaded,
                   runs, obsVars>>

\* TabWidget._save_file_at_index
SaveTab(f) ==
    /\ GuiIdle
    /\ f \in DOMAIN buffers
    /\ disk[f] # buffers[f] \/ f \in unreadable
    /\ disk' = [disk EXCEPT ![f] = buffers[f]]
    /\ unreadable' = unreadable \ {f}
    /\ UNCHANGED <<root_path, buffers, edits, finderVars, run, ideVars, loaded,
                   runs, obsVars>>

\* A file stops being readable (deleted, or no longer valid text).
DiskFailure(f) ==
    /\ GuiIdle
    /\ unreadable = {}
    /\ unreadable' = {f}
    /\ UNCHANGED <<root_path, disk, buffers, edits, finderVars, run, ideVars,
                   loaded, runs, obsVars>>

----------------------------------------------------------------------------
(* The finder called directly: run_with_local_copies(...)() on the caller's  *)
(* thread, with the unsaved tab texts keyed by the paths the finder scans.   *)

LocalCopiesOfTabs ==
    [p \in {Join(root_path, f) : f \in DOMAIN buffers} |-> buffers[p.file]]

\* ReferenceFinder.run_with_local_copies
run_with_local_copies(local_copies, open_file) ==
    /\ _local_copies' = local_copies
    /\ _currently_open_file' = open_file

CallRun(open_file) ==
    /\ GuiIdle
    /\ runs < MaxRuns
    /\ open_file # None => loaded
    /\ run_with_local_copies(LocalCopiesOfTabs, open_file)
    /\ run' = [run EXCEPT !["gui"].pc = "start"]
    /\ runs' = runs + 1
    /\ requested' = [requested EXCEPT !["gui"] =
                        [local_copies |-> LocalCopiesOfTabs,
                         open_file |-> open_file,
                         texts |-> CurrentTexts]]
    /\ startPub' = [startPub EXCEPT !["gui"] = Published]
    /\ UNCHANGED <<definitions, _definitions, name_to_references,
                   _name_to_references, shared, envVars, ideVars, loaded,
                   lastRun>>

----------------------------------------------------------------------------
(* tools/asm_ide/text_position_stack.py: the history of the positions the  *)
(* user has visited, behind the toolbar's back and forward buttons.        *)

\* list[i] of Python: 0-based, a negative index counts from the end.
PyItem(list, i) == IF i < 0 THEN list[Len(list) + i + 1] ELSE list[i + 1]

TextPosition(file_path, pos_in_text) ==
    [file_path |-> file_path, pos_in_text |-> pos_in_text]

\* TextPositionStack.__init__; overwrite_position_at_top_of_the_file is set
\* to True there and never assigned again.
NewTextPositionStack == [stack |-> <<>>, current_index |-> -1]
overwrite_position_at_top_of_the_file == TRUE

\* self.stack = self.stack[: self.current_index + 1]
truncate(self) ==
    IF self.current_index = Len(self.stack) - 1 THEN self
    ELSE [self EXCEPT !.stack =
             IF self.current_index + 1 < 0
             THEN SubSeq(@, 1, Len(@) + self.current_index + 1)
             ELSE SubSeq(@, 1, self.current_index + 1)]

\* go_forward and go_back move the index; what they return is current_entry
\* of the stack they leave.
go_forward(self) == [self EXCEPT !.current_index = @ + 1]
go_back(self) == [self EXCEPT !.current_index = @ - 1]
current_entry(self) == PyItem(self.stack, self.current_index)

\* A push that only appends: the forward history and a top-of-file entry stay.
PushOnEnd(self, file_path, pos_in_text) ==
    [stack |-> Append(self.stack, TextPosition(file_path, pos_in_text)),
     current_index |-> self.current_index + 1]

RECURSIVE push(_, _, _)
push(self, file_path, pos_in_text) ==
    LET truncated == truncate(self) IN
    IF /\ overwrite_position_at_top_of_the_file
       /\ truncated.stack # <<>>
       /\ current_entry(truncated) = TextPosition(file_path, 0)
    THEN push(go_back(truncated), file_path, pos_in_text)
    ELSE [stack |-> Append(truncated.stack,
                           TextPosition(file_path, pos_in_text)),
          current_index |-> truncated.current_index + 1]

is_at_the_beginning(self) == self.current_index < 1
is_at_the_end(self) == self.current_index = Len(self.stack) - 1

\* The texts a file holds on disk when the project is loaded.
InitTexts == { <<<<"A", "=", "1">>>>, <<<<"B", ":", "LDA", "A", ";", "B">>>> }

InitFinder ==
    /\ definitions = EmptyDict
    /\ _definitions = EmptyDict
    /\ name_to_references = EmptyDict
    /\ _name_to_references = EmptyDict
    /\ shared = {}
    /\ _local_copies = EmptyDict
    /\ _currently_open_file = None
    /\ run = [t \in Threads |-> Idle]
    /\ queue = <<>>
    /\ timer = EmptyDict
    /\ since_edit = ReparseDelay
    /\ loaded = FALSE
    /\ runs = 0
    /\ requested = [t \in Threads |-> NoRequest]
    /\ startPub = [t \in Threads |-> NoIndex]
    /\ lastRun = NoRun

InitFinderSpec ==
    /\ root_path = AbsRoot
    /\ disk \in [FileNames -> InitTexts]
    /\ unreadable = {}
    /\ buffers = EmptyDict
    /\ edits = 0
    /\ InitFinder
    /\ ap = NoObject /\ fp = NoObject /\ ret = NoObject
    /\ _position_stack = NewTextPositionStack

NextFinder ==
    \/ \E f \in FileNames : OpenTab(f) /\ UNCHANGED <<parserVars, navVars>>
    \/ \E f \in FileNames : TypeText(f) /\ UNCHANGED <<parserVars, navVars>>
    \/ \E f \in FileNames : SaveTab(f) /\ UNCHANGED <<parserVars, navVars>>
    \/ \E f \in FileNames : DiskFailure(f) /\ UNCHANGED <<parserVars, navVars>>
    \/ CallRun(None) /\ UNCHANGED <<parserVars, navVars>>
    \/ \E f \in FileNames : CallRun(Join(root_path, f)) /\ UNCHANGED <<parserVars, navVars>>
    \/ RunStep("gui") /\ UNCHANGED <<parserVars, navVars>>

SpecFinder == InitFinderSpec /\ [][NextFinder]_vars

----------------------------------------------------------------------------
(* The IDE: MainWindow drives the one finder object from the tabs' timers    *)
(* through a QThreadPool of one thread, and from _on_open on the GUI thread. *)
(* ReferenceFinder has no clear(); TabWidget.clear's call of it is left out. *)

\* MainWindow._get_asm_with_local_copies: every file, keyed relative to the
\* root; the tab's text where a tab is open, else the file read from disk.
get_asm_with_local_copies ==
    [p \in {RelativeTo(Join(root_path, f)) : f \in FileNames} |->
        CurrentTexts[p.file]]

\* asm_path.read_text() of a file without a tab raises for an unreadable file.
CanBuildLocalCopies == unreadable \subseteq DOMAIN buffers

\* MainWindow._get_populated_parse_call
ParseCall(path_of_changed_file) ==
    [local_copies |-> get_asm_with_local_copies,
     open_file |-> IF path_of_changed_file = None
                   THEN None ELSE RelativeTo(path_of_changed_file),
     texts |-> CurrentTexts]

\* The event loop of the GUI thread runs: between events, and inside
\* QApplication.processEvents() of the progress dialog's update_text.
EventLoopRuns == run["gui"].pc \in {"idle", "defs", "refs"}

\* The single-shot timer of f's CodeArea fires: contents_changed ->
\* MainWindow._update_search_index(path) -> QThreadPool.start(parse_call).
TimerTimeout(f) ==
    /\ EventLoopRuns
    /\ f \in DOMAIN timer
    /\ timer[f] = 0
    /\ runs < MaxRuns
    /\ timer' = DictPop(timer, f)
    /\ IF CanBuildLocalCopies
       THEN LET call == ParseCall(Join(root_path, f)) IN
            /\ run_with_local_copies(call.local_copies, call.open_file)
            /\ queue' = Append(queue, call)
            /\ runs' = runs + 1
       ELSE UNCHANGED <<_local_copies, _currently_open_file, queue, runs>>
    /\ UNCHANGED <<definitions, _definitions, name_to_references,
                   _name_to_references, shared, envVars, run, since_edit,
                   loaded, obsVars>>

\* The pool's one thread takes the next queued call and enters run().
WorkerTake ==
    /\ run["worker"].pc = "idle"
    /\ queue # <<>>
    /\ run' = [run EXCEPT !["worker"].pc = "start", !["worker"].caller = "pool"]
    /\ requested' = [requested EXCEPT !["worker"] = Head(queue)]
    /\ startPub' = [startPub EXCEPT !["worker"] = Published]
    /\ queue' = Tail(queue)
    /\ UNCHANGED <<finderVars, envVars, timer, since_edit, loaded, runs,
                   lastRun>>

\* MainWindow._on_open up to ParsingProgressDialog running the parse call on
\* the GUI thread: TabWidget.clear closes the tabs, then a complete parse.
OnOpen ==
    /\ GuiIdle
    /\ loaded
    /\ NoTimerDue
    /\ runs < MaxRuns
    /\ unreadable = {}
    /\ buffers' = EmptyDict
    /\ LET call == [local_copies |->
                       [p \in {RelativeTo(Join(root_path, f)) : f \in FileNames}
                           |-> disk[p.file]],
                    open_file |-> None,
                    texts |-> disk]
       IN /\ run_with_local_copies(call.local_copies, call.open_file)
          /\ requested' = [requested EXCEPT !["gui"] = call]
    /\ run' = [run EXCEPT !["gui"].pc = "start", !["gui"].caller = "on_open"]
    /\ startPub' = [startPub EXCEPT !["gui"] = Published]
    /\ runs' = runs + 1
    /\ UNCHANGED <<definitions, _definitions, name_to_references,
                   _name_to_references, shared, root_path, disk, unreadable,
                   edits, ideVars, loaded, lastRun>>

\* MainWindow._on_open, after the parse: open_or_switch_file(smb3.asm).
OnOpenTab ==
    /\ run["gui"].pc = "open"
    /\ run' = [run EXCEPT !["gui"] = Idle]
    /\ LET f == ScanFiles[1] IN
       IF f \in unreadable
       THEN UNCHANGED <<buffers, timer, since_edit>>
       ELSE /\ buffers' = DictSet(buffers, f, disk[f])
            /\ SetPlainText(f, disk[f])
    /\ UNCHANGED <<root_path, disk, unreadable, edits, finderVars, queue,
                   loaded, runs, obsVars>>

\* One tick of time passes; a timer that has run out fires before the next.
Tick ==
    /\ NoTimerDue
    /\ DOMAIN timer # {} \/ since_edit < ReparseDelay
    /\ timer' = [f \in DOMAIN timer |-> timer[f] - 1]
    /\ since_edit' = IF since_edit < ReparseDelay
                     THEN since_edit + 1 ELSE since_edit
    /\ UNCHANGED <<finderVars, envVars, run, queue, loaded, runs, obsVars>>

\* The complete parse of MainWindow.__init__, as ReferenceFinder.run computes
\* it from an empty index and the files on disk.
RECURSIVE FullScanDefinitions(_, _, _)
FullScanDefinitions(defs, texts, i) ==
    IF i > Len(ScanFiles) THEN defs
    ELSE FullScanDefinitions(
             DefinitionsOfLines(defs, texts[ScanFiles[i]], 1,
                                MkPath(FALSE, ScanFiles[i])),
             texts, i + 1)

RECURSIVE FullScanReferences(_, _, _)
FullScanReferences(h, texts, i) ==
    IF i > Len(ScanFiles) THEN h
    ELSE FullScanReferences(
             ReferencesOfLines(
                 remove_reference_of_file(h, TRUE, FALSE,
                                          MkPath(FALSE, ScanFiles[i])),
                 texts[ScanFiles[i]], 1, MkPath(FALSE, ScanFiles[i])),
             texts, i + 1)

FirstIndex(texts) ==
    LET defs == FullScanDefinitions(EmptyDict, texts, 1)
        h == cleanup_references(
                 FullScanReferences(Heap(EmptyDict, EmptyDict, {}), texts, 1),
                 CleanupDefinitions(EmptyDict, defs))
    IN  [defs |-> defs, refs |-> h.priv]

\* The state after MainWindow.__init__: the project is parsed and smb3.asm is
\* open in the first tab, its timer started by setPlainText.
\* The project on disk when the IDE starts: a constant in smb3.asm, a label
\* and a reference to the constant in PRG/prg000.asm.
ProjectOnDisk ==
    [f \in FileNames |-> IF f = ScanFiles[1]
                         THEN <<<<"A", "=", "1">>>>
                         ELSE <<<<"B", ":", "LDA", "A", ";", "B">>>>]

InitIde ==
    /\ root_path \in {AbsRoot, CwdRoot}
    /\ disk = ProjectOnDisk
    /\ unreadable = {}
    /\ buffers = DictSet(EmptyDict, ScanFiles[1], disk[ScanFiles[1]])
    /\ edits = 0
    /\ definitions = FirstIndex(disk).defs
    /\ _definitions = definitions
    /\ name_to_references = FirstIndex(disk).refs
    /\ _name_to_references = name_to_references
    /\ shared = DOMAIN name_to_references
    /\ _local_copies = EmptyDict
    /\ _currently_open_file = None
    /\ run = [t \in Threads |-> Idle]
    /\ queue = <<>>
    /\ timer = DictSet(EmptyDict, ScanFiles[1], ReparseDelay)
    /\ since_edit = 0
    /\ loaded = TRUE
    /\ runs = 0
    /\ requested = [t \in Threads |-> NoRequest]
    /\ startPub = [t \in Threads |-> NoIndex]
    /\ lastRun = [outcome |-> "ok", complete |-> TRUE, open_file |-> None,
                  texts |-> disk, defs |-> definitions,
                  refs |-> name_to_references]
    /\ ap = NoObject /\ fp = NoObject /\ ret = NoObject
    /\ _position_stack = NewTextPositionStack

NextIde ==
    \/ \E f \in FileNames : OpenTab(f) /\ UNCHANGED <<parserVars, navVars>>
    \/ \E f \in FileNames : TypeText(f) /\ UNCHANGED <<parserVars, navVars>>
    \/ \E f \in FileNames : TimerTimeout(f) /\ UNCHANGED <<parserVars, navVars>>
    \/ Tick /\ UNCHANGED <<parserVars, navVars>>
    \/ WorkerTake /\ UNCHANGED <<parserVars, navVars>>
    \/ OnOpen /\ UNCHANGED <<parserVars, navVars>>
    \/ OnOpenTab /\ UNCHANGED <<parserVars, navVars>>
    \/ \E t \in Threads : RunStep(t) /\ UNCHANGED <<parserVars, navVars>>

SpecIde == InitIde /\ [][NextIde]_vars

----------------------------------------------------------------------------
(* Python strings.  A str is a sequence of one-character strings; the     *)
(* operators below are the str methods the parsers call.                   *)

\* With(v, F) is F(v): the value v under the name the LAMBDA gives it.
With(v, F(_)) == F(v)

Digits == <<"0", "1", "2", "3", "4", "5", "6", "7", "8", "9">>
HexDigits == Digits \o <<"A", "B", "C", "D", "E", "F">>
UpperCase == <<"A", "B", "C", "D", "E", "F", "G", "H", "I", "J", "K", "L", "M",
               "N", "O", "P", "Q", "R", "S", "T", "U", "V", "W", "X", "Y", "Z">>
LowerCase == <<"a", "b", "c", "d", "e", "f", "g", "h", "i", "j", "k", "l", "m",
               "n", "o", "p", "q", "r", "s", "t", "u", "v", "w", "x", "y", "z">>

Range(seq) == {seq[i] : i \in 1..Len(seq)}
IndexIn(seq, c) == CHOOSE i \in 1..Len(seq) : seq[i] = c

\* str.isspace, str.isnumeric, str.isalpha, str.isalnum of one character.
IsSpace(c) == c \in {" ", "\t", "\n"}
IsNumericChar(c) == c \in Range(Digits)
IsAlphaChar(c) == c \in Range(UpperCase) \cup Range(LowerCase)
IsAlnumChar(c) == IsAlphaChar(c) \/ IsNumericChar(c)

\* str.isnumeric of a string: not empty and only digits.
IsNumeric(s) == s # <<>> /\ \A i \in 1..Len(s) : IsNumericChar(s[i])

\* str.upper.
UpperChar(c) == IF c \in Range(LowerCase) THEN UpperCase[IndexIn(LowerCase, c)]
                ELSE c
Upper(s) == [i \in 1..Len(s) |-> UpperChar(s[i])]

\* s[from:] of Python, with a 1-based index.
Drop(s, from) == SubSeq(s, from, Len(s))

\* str.startswith and str.endswith.
StartsWith(s, pre) ==
    Len(pre) <= Len(s) /\ SubSeq(s, 1, Len(pre)) = pre
EndsWith(s, suf) ==
    Len(suf) <= Len(s) /\ SubSeq(s, Len(s) - Len(suf) + 1, Len(s)) = suf

\* str.find of a non-empty string, 1-based; 0 when sub does not occur.
Find(s, sub) ==
    With(       {i \in 1..(Len(s) - Len(sub) + 1) :
                    SubSeq(s, i, i + Len(sub) - 1) = sub}, LAMBDA hits :
        IF hits = {} THEN 0
        ELSE CHOOSE i \in hits : \A j \in hits : i <= j)

\* `sub in s`.
Contains(s, sub) == Find(s, sub) # 0

\* str.strip, str.lstrip and str.rstrip without argument.
RECURSIVE LStrip(_)
LStrip(s) == IF s # <<>> /\ IsSpace(Head(s)) THEN LStrip(Tail(s)) ELSE s
RECURSIVE RStrip(_)
RStrip(s) == IF s # <<>> /\ IsSpace(s[Len(s)])
             THEN RStrip(SubSeq(s, 1, Len(s) - 1)) ELSE s
Strip(s) == LStrip(RStrip(s))

\* str.split(sep) with a non-empty separator: the list of the parts.
RECURSIVE Split(_, _)
Split(s, sep) ==
    With(Find(s, sep), LAMBDA i :
        IF i = 0 THEN <<s>>
        ELSE <<SubSeq(s, 1, i - 1)>> \o Split(Drop(s, i + Len(sep)), sep))

\* str.split(sep, maxsplit=1).
SplitOnce(s, sep) ==
    With(Find(s, sep), LAMBDA i :
        IF i = 0 THEN <<s>>
        ELSE <<SubSeq(s, 1, i - 1), Drop(s, i + Len(sep))>>)

\* str.split() without argument: the words between runs of whitespace.
RECURSIVE WordEnd(_, _)
WordEnd(s, i) == IF i <= Len(s) /\ ~IsSpace(s[i]) THEN WordEnd(s, i + 1) ELSE i
RECURSIVE Words(_)
Words(s) ==
    With(LStrip(s), LAMBDA t :
    With(WordEnd(t, 1), LAMBDA e :
        IF t = <<>> THEN <<>>
        ELSE <<SubSeq(t, 1, e - 1)>> \o Words(Drop(t, e))))

\* str.replace(old, new) with a non-empty old.
RECURSIVE Replace(_, _, _)
Replace(s, old, new) ==
    With(Find(s, old), LAMBDA i :
        IF i = 0 THEN s
        ELSE SubSeq(s, 1, i - 1) \o new
             \o Replace(Drop(s, i + Len(old)), old, new))

\* str.removesuffix.
RemoveSuffix(s, suf) ==
    IF EndsWith(s, suf) THEN SubSeq(s, 1, Len(s) - Len(suf)) ELSE s

\* int(s, base) of a string of digits of that base (upper or lower case).
RECURSIVE IntOfBase(_, _)
IntOfBase(s, base) ==
    IF s = <<>> THEN 0
    ELSE IntOfBase(SubSeq(s, 1, Len(s) - 1), base) * base
         + (IndexIn(HexDigits, UpperChar(s[Len(s)])) - 1)

\* int(s) accepts a decimal literal; anything else raises ValueError.
IsInt(s) == IsNumeric(s)
int(s) == IntOfBase(s, 10)

----------------------------------------------------------------------------
(* Claims about the index. *)

\* Thread t is inside ReferenceFinder.run.
Running(t) == run[t].pc \in {"start", "defs", "refs", "cleanup", "publish"}

\* The step of thread t that publishes the result of its run.
Publishes(t) == run[t].pc = "publish" /\ run'[t].pc # "publish"

\* The step of thread t in which an error leaves its run.
Fails(t) == Running(t) /\ run'[t].pc = "idle" /\ lastRun'.outcome = "failed"

\* The previous run to end was a complete parse that published.
AfterFullScan == lastRun.outcome = "ok" /\ lastRun.complete

SamePublication ==
    lastRun'.defs = lastRun.defs /\ lastRun'.refs = lastRun.refs

\* C1: a full scan that directly follows a full scan of the same, unchanged
\* file contents publishes the same definitions map and the same
\* name-to-references map as the first one.
C1_FullScanIdempotent ==
    [][\A t \in Threads :
         (/\ Publishes(t) /\ run[t].complete
          /\ AfterFullScan
          /\ requested[t].texts = lastRun.texts)
         => SamePublication]_vars

\* C2: an incremental scan of a file, directly after a full scan and with no
\* file content changed, publishes the same two maps as the full scan.
C2_IncrementalUnchanged ==
    [][\A t \in Threads :
         (/\ Publishes(t) /\ ~run[t].complete
          /\ AfterFullScan
          /\ requested[t].texts = lastRun.texts)
         => SamePublication]_vars

\* new is old with the one line <<name, "=", number>> inserted.
AddsConstant(old, new, name) ==
    /\ Len(new) = Len(old) + 1
    /\ \E k \in 1..Len(new) :
          /\ old = SubSeq(new, 1, k - 1) \o SubSeq(new, k + 1, Len(new))
          /\ \E v \in NumberTokens : new[k] = <<name, "=", v>>

NotFrom(d, rel_path) ==
    Restrict(d, {n \in DOMAIN d : d[n].origin_file # rel_path})

RefsNotFrom(refs, n, rel_path) ==
    IF n \in DOMAIN refs
    THEN {r \in refs[n] : r.origin_file # rel_path}
    ELSE {}

AllNames == IdentTokens \cup {"ds"}

\* C3: after a full scan, when only file F changed, by one added constant
\* assignment of a new name, the incremental scan of F publishes definitions
\* for exactly the old names plus the new one, and every definition and
\* every reference whose origin is another file is as it was.
C3_AddedConstantFrame ==
    [][\A t \in Threads : \A f \in FileNames : \A name \in IdentTokens :
         (/\ Publishes(t) /\ ~run[t].complete
          /\ AfterFullScan
          /\ requested[t].open_file = Join(root_path, f)
          /\ \A g \in FileNames \ {f} : requested[t].texts[g] = lastRun.texts[g]
          /\ name \notin DOMAIN lastRun.defs
          /\ AddsConstant(lastRun.texts[f], requested[t].texts[f], name))
         => /\ DOMAIN lastRun'.defs = (DOMAIN lastRun.defs) \cup {name}
            /\ NotFrom(lastRun'.defs, MkPath(FALSE, f))
                  = NotFrom(lastRun.defs, MkPath(FALSE, f))
            /\ \A n \in AllNames :
                  RefsNotFrom(lastRun'.refs, n, MkPath(FALSE, f))
                     = RefsNotFrom(lastRun.refs, n, MkPath(FALSE, f))]_vars

AllIdle == \A t \in Threads : ~Running(t)

\* C4: after every completed scan, no published reference set holds a
\* reference at the (file, line) of the published definition of its name.
C4_NoDefinitionSiteReference ==
    (AllIdle /\ lastRun.outcome = "ok") =>
        \A n \in (DOMAIN definitions) \cap (DOMAIN name_to_references) :
            \A r \in name_to_references[n] :
                ~(/\ r.origin_file = definitions[n].origin_file
                  /\ r.origin_line_no = definitions[n].origin_line_no)

\* C5: when a run ends with an error, the published maps, reference sets
\* included, are what they were when that run started.
C5_FailedRunLeavesPublished ==
    [][\A t \in Threads :
         Fails(t) => /\ definitions' = startPub[t].defs
                     /\ name_to_references' = startPub[t].refs]_vars

\* C6: while a run executes, the published maps are those the last completed
\* run published (those in place when the run started).
C6_ReadersSeeLastPublished ==
    \A t \in Threads : Running(t) => Published = startPub[t]

----------------------------------------------------------------------------
(* Claims about the IDE's use of the finder. *)

C8_RunReadsItsOwnInputs ==
    \A t \in Threads :
        run[t].pc \in {"start", "defs", "refs"} =>
            /\ _local_copies = requested[t].local_copies
            /\ _currently_open_file = requested[t].open_file

\* The entry the caller built for file f in the override map of t's run.
EntriesOf(t, f) ==
    {p \in DOMAIN requested[t].local_copies : p.file = f}

\* C9: when a pass of a run has read a file for which the caller's override
\* map has an entry, it has used that entry's text, not the file on disk.
C9_OverrideTextIsUsed ==
    \A t \in Threads :
        \A p \in EntriesOf(t, run[t].read.file) :
            run[t].read.text = requested[t].local_copies[p]

\* C10: a re-index request is issued only when at least the debounce delay
\* has passed since the latest text modification in any open file.
C10_RequestOnlyAfterDelay ==
    [][Len(queue') > Len(queue) => since_edit >= ReparseDelay]_vars

----------------------------------------------------------------------------
(* foundry/data_source: the vocabulary of the assembly language and the    *)
(* line classifiers of the byte-layout resolver (assembly_parser.py).      *)

\* The operators, in the order _parse_calculation tries them.
OPERATORS ==
    << <<"+">>, <<"-">>, <<"*">>, <<"/">>, <<"%">>, <<"^">>, <<"&">>, <<"|">>, <<"~">>, <<"<",
        "<">>, <<">", ">">> >>

COMPARATORS ==
    { <<"=">>, <<"!", "=">>, <<"!">>, <<"<">>, <<">">>, <<"<", "=">>, <<">", "=">> }

DIRECTIVES ==
    { <<".", "L", "I", "S", "T">>, <<".", "N", "O", "L", "I", "S", "T">>, <<".", "M", "L", "I",
        "S", "T">>, <<".", "N", "O", "M", "L", "I", "S", "T">>, <<".", "O", "P", "T">>,
      <<".", "E", "Q", "U">>, <<".", "B", "A", "N", "K">>, <<".", "O", "R", "G">>, <<".", "D",
        "B">>, <<".", "D", "W">>,
      <<".", "B", "Y", "T", "E">>, <<".", "W", "O", "R", "D">>, <<".", "D", "S">>, <<".", "R",
        "S", "S", "E", "T">>, <<".", "R", "S">>,
      <<".", "M", "A", "C", "R", "O">>, <<".", "E", "N", "D", "M">>, <<".", "P", "R", "O",
        "C">>, <<".", "E", "N", "D", "P">>, <<".", "P", "R", "O", "C", "G", "R", "O", "U", "P">>,
      <<".", "E", "N", "D", "P", "R", "O", "C", "G", "R", "O", "U", "P">>, <<".", "I", "N",
        "C", "B", "I", "N">>, <<".", "I", "N", "C", "L", "U", "D", "E">>, <<".", "I", "N", "C",
        "C", "H", "R">>, <<".", "D", "E", "F", "C", "H", "R">>,
      <<".", "Z", "P">>, <<".", "B", "S", "S">>, <<".", "C", "O", "D", "E">>, <<".", "D", "A",
        "T", "A">>, <<".", "I", "F">>,
      <<".", "I", "F", "D", "E", "F">>, <<".", "I", "F", "N", "D", "E", "F">>, <<".", "E", "L",
        "S", "E">>, <<".", "E", "N", "D", "I", "F">>, <<".", "F", "A", "I", "L">>,
      <<".", "I", "N", "E", "S", "P", "R", "G">>, <<".", "I", "N", "E", "S", "C", "H", "R">>,
        <<".", "I", "N", "E", "S", "M", "A", "P">>, <<".", "I", "N", "E", "S", "M", "I", "R">> }

FUNCTIONS ==
    { <<"H", "I", "G", "H">>, <<"L", "O", "W">>, <<"B", "A", "N", "K">>, <<"P", "A", "G",
        "E">>, <<"S", "I", "Z", "E", "O", "F">> }

INSTRUCTIONS ==
    { <<"A", "D", "C">>, <<"A", "N", "D">>, <<"A", "S", "L">>, <<"B", "C", "C">>, <<"B", "C",
        "S">>, <<"B", "E", "Q">>, <<"B", "I", "T">>, <<"B", "M", "I">>, <<"B", "N", "E">>,
        <<"B", "P", "L">>,
      <<"B", "R", "A">>, <<"B", "R", "K">>, <<"B", "V", "C">>, <<"B", "V", "S">>, <<"C", "L",
        "C">>, <<"C", "L", "D">>, <<"C", "L", "I">>, <<"C", "L", "V">>, <<"C", "M", "P">>,
        <<"C", "P", "X">>,
      <<"C", "P", "Y">>, <<"D", "E", "C">>, <<"D", "E", "X">>, <<"D", "E", "Y">>, <<"E", "O",
        "R">>, <<"I", "N", "C">>, <<"I", "N", "X">>, <<"I", "N", "Y">>, <<"J", "M", "P">>,
        <<"J", "S", "R">>,
      <<"L", "D", "A">>, <<"L", "D", "X">>, <<"L", "D", "Y">>, <<"L", "S", "R">>, <<"N", "O",
        "P">>, <<"O", "R", "A">>, <<"P", "H", "A">>, <<"P", "H", "P">>, <<"P", "L", "A">>,
        <<"P", "L", "P">>,
      <<"R", "O", "L">>, <<"R", "O", "R">>, <<"R", "T", "I">>, <<"R", "T", "S">>, <<"S", "B",
        "C">>, <<"S", "E", "C">>, <<"S", "E", "D">>, <<"S", "E", "I">>, <<"S", "T", "A">>,
        <<"S", "T", "X">>,
      <<"S", "T", "Y">>, <<"T", "A", "X">>, <<"T", "A", "Y">>, <<"T", "S", "X">>, <<"T", "X",
        "A">>, <<"T", "X", "S">>, <<"T", "Y", "A">> }

RELATIVE_ADDRESSING_INSTRUCTIONS ==
    { <<"B", "C", "C">>, <<"B", "C", "S">>, <<"B", "E", "Q">>, <<"B", "M", "I">>, <<"B", "N",
        "E">>, <<"B", "P", "L">>, <<"B", "R", "A">>, <<"B", "V", "C">>, <<"B", "V", "S">> }

\* The two data directives the resolver imports by name.
BYTE_DIRECTIVE == <<".", "b", "y", "t", "e">>
WORD_DIRECTIVE == <<".", "w", "o", "r", "d">>

\* The characters a numeral may start with besides a digit.
NUMERAL_START_CHARS == <<"$", "%", "+", "-">>

\* smb3parse: the length of the iNES header and the size of a PRG bank.
BASE_OFFSET == 16
PRG_BANK_SIZE == 8192

\* strip_comment of foundry.data_source: cut at the first ";" and strip.
data_source_strip_comment(line) ==
    With(Find(line, <<";">>), LAMBDA semi_colon_index :
        IF semi_colon_index = 0 THEN Strip(line)
        ELSE Strip(SubSeq(line, 1, semi_colon_index - 1)))

_is_only_comment(line) == line # <<>> /\ data_source_strip_comment(line) = <<>>

_is_empty_line(line) == Strip(line) = <<>>

\* Called on lines that are not empty: line.split()[0] exists.
_is_generic_directive(line) == Upper(Words(line)[1]) \in DIRECTIVES

_is_ignored_directive(line) ==
    /\ _is_generic_directive(line)
    /\ Split(data_source_strip_comment(line), <<" ">>)[1] \in {<<".", "d", "a", "t", "a">>,
        <<".", "o", "r", "g">>, <<".", "c", "o", "d", "e">>}

_is_org_directive(line) ==
    /\ _is_generic_directive(line)
    /\ Split(data_source_strip_comment(line), <<" ">>)[1] = <<".", "o", "r", "g">>

\* The unpacking into (name, ds, value) raises unless there are three words.
_is_ds_directive_raises(line) ==
    /\ Contains(line, <<".", "d", "s">>)
    /\ ~StartsWith(Strip(line), <<".", "d", "s">>)
    /\ Len(Words(data_source_strip_comment(Replace(line, <<".", "d", "s">>, <<" ", ".", "d",
        "s">>)))) # 3

_is_ds_directive(line) ==
    /\ Contains(line, <<".", "d", "s">>)
    /\ \/ StartsWith(Strip(line), <<".", "d", "s">>)
       \/ Words(data_source_strip_comment(Replace(line, <<".", "d", "s">>, <<" ", ".", "d",
        "s">>)))[2] = <<".", "d", "s">>

_is_func_directive(line) ==
    Contains(line, <<".", "f", "u", "n", "c">>) /\ Len(Split(line, <<".", "f", "u", "n", "c">>)) = 2

_is_ines_directive(line) ==
    /\ StartsWith(data_source_strip_comment(line), <<".", "i", "n", "e", "s">>)
    /\ Len(Split(data_source_strip_comment(line), <<" ">>)) = 2

_is_include_directive(line) ==
    Contains(data_source_strip_comment(line), <<".", "i", "n", "c", "l", "u", "d", "e">>)

_is_instruction(line) ==
    Split(data_source_strip_comment(line), <<" ">>)[1] \in INSTRUCTIONS

_is_symbol_definition(line) ==
    With(data_source_strip_comment(line), LAMBDA stripped :
        IF ~Contains(stripped, <<":">>)
        THEN Len(Words(stripped)) = 1 /\ ~_is_instruction(stripped)
        ELSE ~StartsWith(stripped, <<":">>))

_is_const_assignment(line) ==
    Len(Split(data_source_strip_comment(line), <<"=">>)) = 2

_is_byte(line) == Contains(line, BYTE_DIRECTIVE) \/ Contains(line, <<".", "d", "b">>)

_is_word(line) == Contains(line, WORD_DIRECTIVE) \/ Contains(line, <<".", "d", "w">>)

\* Macro.macro_on_line: the name in front of ".macro", or "".
macro_on_line(line) ==
    IF ~Contains(line, <<".", "m", "a", "c", "r", "o">>) THEN <<>>
    ELSE Strip(Replace(line, <<".", "m", "a", "c", "r", "o">>, <<>>))

----------------------------------------------------------------------------
(* Numbers and calculations of the resolver.  A call either returns a     *)
(* value or raises: Returned(v) and Raised(exception).                     *)

Returned(v) == [ok |-> TRUE, v |-> v]
Raised(e) == [ok |-> FALSE, v |-> e]

IsDigitsOf(s, base) ==
    /\ s # <<>>
    /\ \A i \in 1..Len(s) : UpperChar(s[i]) \in Range(SubSeq(HexDigits, 1, base))

\* smb3parse.util.hex_int and bin_int: int(s, 16) and int(s, 2).
hex_int(s) ==
    IF IsDigitsOf(s, 16) THEN Returned(IntOfBase(s, 16)) ELSE Raised("ValueError")
bin_int(s) ==
    IF IsDigitsOf(s, 2) THEN Returned(IntOfBase(s, 2)) ELSE Raised("ValueError")

_string_is_calculation(line) ==
    \A i \in 1..Len(line) :
        \/ <<line[i]>> \in Range(OPERATORS)
        \/ line[i] = " "
        \/ line[i] \in Range(NUMERAL_START_CHARS)
        \/ IsNumericChar(line[i])

\* eval() of a string _string_is_calculation accepts: a decimal literal or
\* one "+", "-" or "*" between two decimal literals; Python rejects the
\* other strings of these characters the resolver is given here.
eval(s) ==
    With(      {op \in {<<"+">>, <<"-">>, <<"*">>} :
                   /\ Len(Split(s, op)) = 2
                   /\ IsNumeric(Strip(Split(s, op)[1]))
                   /\ IsNumeric(Strip(Split(s, op)[2]))}, LAMBDA ops :
    With(CHOOSE o \in ops : TRUE, LAMBDA op :
    With(int(Strip(Split(s, op)[1])), LAMBDA l :
    With(int(Strip(Split(s, op)[2])), LAMBDA r :
        IF IsNumeric(Strip(s)) THEN Returned(int(Strip(s)))
        ELSE IF ops = {} THEN Raised("SyntaxError")
        ELSE IF op = <<"+">> THEN Returned(l + r)
        ELSE IF op = <<"-">> THEN Returned(l - r)
        ELSE Returned(l * r)))))

_parse_number(number_str) ==
    With(Strip(number_str), LAMBDA stripped :
    With(StartsWith(stripped, <<"-">>), LAMBDA is_negative :
    With(IF is_negative THEN Tail(stripped) ELSE stripped, LAMBDA s :
    With(hex_int(Tail(s)), LAMBDA hex :
    With(bin_int(Tail(s)), LAMBDA bin :
    With(Replace(s, <<"'">>, <<>>), LAMBDA chr :
    With(
            IF StartsWith(s, <<"$">>)
            THEN IF hex.ok /\ hex.v > 65535 THEN Raised("AssertionError") ELSE hex
            ELSE IF StartsWith(s, <<"%">>)
            THEN IF bin.ok /\ bin.v > 255 THEN Raised("AssertionError") ELSE bin
            ELSE IF StartsWith(s, <<"'">>)
            THEN IF Len(chr) = 1 /\ chr[1] \in Range(UpperCase)
                 THEN Returned(64 + IndexIn(UpperCase, chr[1]))
                 ELSE Raised("AssertionError")
            ELSE IF IsNumeric(s) THEN Returned(int(s))
            ELSE IF ~_string_is_calculation(s) THEN Raised("ValueError")
            ELSE eval(s), LAMBDA number :
        IF number.ok /\ is_negative THEN Returned(0 - number.v) ELSE number)))))))

_is_calculation(line) ==
    With(       IF \E c \in {<<"-">>, <<"%">>, <<"$">>} : StartsWith(line, c)
                THEN Tail(line) ELSE line, LAMBDA rest :
        \/ \E i \in 1..Len(OPERATORS) : Contains(rest, OPERATORS[i])
        \/ \E comparator \in COMPARATORS : Contains(rest, comparator))

\* _parse_calculation raises unless the first operator found after the
\* first character splits the line in exactly two.
_parse_calculation_raises(line) ==
    With({i \in 1..Len(OPERATORS) : Contains(Drop(line, 2), OPERATORS[i])}, LAMBDA found :
    With(CHOOSE i \in found : \A j \in found : i <= j, LAMBDA first :
        found = {} \/ Len(Split(line, OPERATORS[first])) # 2))

----------------------------------------------------------------------------
(* The AssemblyParser object.  `ap` holds its fields under their own names *)
(* and the frame of the scan in progress: pc (which scan), file and lines  *)
(* (the lines of that file still to be scanned), line_count, ram_address,  *)
(* prg (which entry of _prg_lut is being scanned) and error (the exception *)
(* that ended the run).  A file is looked up in fs, the files on disk.     *)

smb3_asm_file == <<"s", "m", "b", "3", ".", "a", "s", "m">>

\* AsmPosition(file, line_no) and AsmPosition(file, line_no, size).
AsmPosition(file, line_no, size) == [file |-> file, line_no |-> line_no, size |-> size]

\* An insertion-ordered dict (OrderedDict, dict): a sequence of items.
OrderedKeys(d) == [i \in 1..Len(d) |-> d[i].key]
OrderedSet(d, k, v) ==
    IF \E i \in 1..Len(d) : d[i].key = k
    THEN [i \in 1..Len(d) |-> IF d[i].key = k THEN [key |-> k, value |-> v] ELSE d[i]]
    ELSE Append(d, [key |-> k, value |-> v])

\* AssemblyParser.__init__
NewAssemblyParser ==
    [pc |-> "new", file |-> <<>>, lines |-> <<>>, line_count |-> 0,
     ram_address |-> 0, prg |-> 0, error |-> "",
     _macro_lut |-> EmptyDict, _const_lut |-> EmptyDict, _func_lut |-> EmptyDict,
     _ram_lut |-> EmptyDict, _symbol_lut |-> EmptyDict,
     _prg_lut |-> <<>>, _chr_lut |-> <<>>,
     _current_byte_offset |-> 0, _current_prg_offset |-> 0, _line_co |-> 0,
     _prg_count |-> 0, _chr_count |-> 0, _bytes_to_lines |-> <<>>,
     _ines_mapper |-> 0, _ines_mirror |-> 0]

ApRaise(a, e) == [a EXCEPT !.pc = "error", !.error = e]
Failed(a) == a.pc = "error"
PopLine(a) == [a EXCEPT !.lines = Tail(@)]

\* The value a constant is stored with: a str or an int.
StrValue(s) == [type |-> "str", s |-> s, n |-> 0]
IntValue(n) == [type |-> "int", s |-> <<>>, n |-> n]

\* _strip_comment, which macro.py imports from foundry.data_source: the
\* line without its comment, as strip_comment gives it.
_strip_comment(line) == data_source_strip_comment(line)

\* Macro.parse_macro: the comment-stripped lines from the ".macro" line to
\* the first line holding ".endm"; raises when there is none.
parse_macro(lines) ==
    With({i \in 2..Len(lines) :
             Contains(_strip_comment(lines[i]), <<".", "e", "n", "d", "m">>)}, LAMBDA ends :
    With(CHOOSE i \in ends : \A j \in ends : i <= j, LAMBDA last :
        IF ends = {} THEN Raised("ValueError: Ran out of lines in macro definition")
        ELSE Returned([name |-> macro_on_line(_strip_comment(lines[1])),
                       lines |-> [i \in 1..last |-> _strip_comment(lines[i])]])))

\* AssemblyParser._is_func_call: FALSE, TRUE, or an error for an unknown
\* function name.
FuncCallName(line) ==
    With(Split(data_source_strip_comment(line), <<"(">>)[1], LAMBDA before :
    With(Split(before, <<" ">>), LAMBDA words :
        words[Len(words)]))
LooksLikeFuncCall(line) ==
    With(data_source_strip_comment(line), LAMBDA s :
    With(Find(s, <<"(">>), LAMBDA paren_index :
        /\ Contains(s, <<"(">>) /\ Contains(s, <<")">>)
        /\ paren_index # 1
        /\ s[paren_index - 1] # " "))
_is_func_call_raises(a, line) ==
    /\ LooksLikeFuncCall(line)
    /\ FuncCallName(line) \notin DOMAIN a._func_lut
    /\ FuncCallName(line) \notin FUNCTIONS
_is_func_call(a, line) ==
    LooksLikeFuncCall(line) /\ ~_is_func_call_raises(a, line)

\* The macro a line invokes, or "".
_is_macro_invoke(a, line) ==
    With(Split(data_source_strip_comment(line), <<" ">>)[1], LAMBDA first :
        IF Contains(line, <<".", "m", "a", "c", "r", "o">>) THEN <<>>
        ELSE IF first \in DOMAIN a._macro_lut THEN first
        ELSE <<>>)

\* Path.with_suffix(".asm")
with_suffix_asm(path) ==
    With(       {i \in 1..Len(path) :
                    path[i] = "." /\ \A j \in i..Len(path) : path[j] # "/"}, LAMBDA dots :
    With(CHOOSE i \in dots : \A j \in dots : j <= i, LAMBDA last :
        (IF dots = {} THEN path ELSE SubSeq(path, 1, last - 1)) \o <<".", "a", "s", "m">>))

\* The const assignment branch of _prg_pass_1, on the comment-stripped line.
Pass1ConstAssignment(a, stripped) ==
    With(Strip(Split(stripped, <<"=">>)[1]), LAMBDA name :
    With(Strip(Split(stripped, <<"=">>)[2]), LAMBDA value :
    With(_parse_number(value), LAMBDA number :
        IF value \in DOMAIN a._const_lut
        THEN ApRaise(a, "ValueError: Redefinition")
        ELSE IF _is_func_call_raises(a, value)
        THEN ApRaise(a, "ValueError: Function call not found")
        ELSE IF _is_func_call(a, value)
        THEN [a EXCEPT !._const_lut = DictSet(@, name, StrValue(<<"f", "u", "n", "c">>))]
        ELSE IF _is_calculation(value)
        THEN IF _parse_calculation_raises(value)
             THEN ApRaise(a, "ValueError: Couldn't parse calculation")
             ELSE [a EXCEPT !._const_lut = DictSet(@, name, StrValue(<<"c", "a", "l", "c">>))]
        ELSE IF ~number.ok THEN ApRaise(a, number.v)
        ELSE [a EXCEPT !._const_lut = DictSet(@, name, IntValue(number.v))])))

RECURSIVE _prg_pass_1(_, _, _)
RECURSIVE Pass1Loop(_, _)

\* One iteration of the loop of _prg_pass_1, on the first of a.lines.
Pass1Line(a, fs) ==
    With(Replace(a.lines[1], <<"\t">>, <<" ">>), LAMBDA line :
    With(data_source_strip_comment(line), LAMBDA stripped :
    With([a EXCEPT !._line_co = @ + 1], LAMBDA b :
    With(AsmPosition(a.file, b._line_co, 0), LAMBDA here :
    With(AsmPosition(smb3_asm_file, b._line_co, 0), LAMBDA in_smb3 :
    With(parse_macro(a.lines), LAMBDA macro :
    With(            Strip(Replace(Split(stripped, <<".", "i", "n", "c", "l", "u", "d",
        "e">>)[2], <<"\"">>, <<>>)), LAMBDA file_name :
    With(                IF file_name \in DOMAIN fs THEN file_name
                         ELSE with_suffix_asm(file_name), LAMBDA absolute_name :
    With(_prg_pass_1(b, fs, absolute_name), LAMBDA included :
        IF _is_empty_line(line) \/ _is_only_comment(line) THEN PopLine(b)
        ELSE IF _is_func_directive(line)
        THEN PopLine([b EXCEPT !._func_lut =
                 DictSet(@, Replace(Strip(Split(stripped, <<" ">>)[1]), <<":">>, <<>>), here)])
        ELSE IF _is_byte(line)
        THEN PopLine(IF StartsWith(stripped, BYTE_DIRECTIVE) THEN b
                     ELSE [b EXCEPT !._symbol_lut =
                              DictSet(@, Strip(Replace(Split(stripped, BYTE_DIRECTIVE)[1],
                                                       <<":">>, <<>>)), in_smb3)])
        ELSE IF _is_word(line)
        THEN PopLine(IF StartsWith(stripped, WORD_DIRECTIVE) THEN b
                     ELSE [b EXCEPT !._symbol_lut =
                              DictSet(@, Strip(Replace(Split(stripped, WORD_DIRECTIVE)[1],
                                                       <<":">>, <<>>)), in_smb3)])
        ELSE IF macro_on_line(line) # <<>>
        THEN IF ~macro.ok THEN ApRaise(b, macro.v)
             ELSE [b EXCEPT !._macro_lut = DictSet(@, macro.v.name, macro.v.lines),
                            !.lines = Drop(@, Len(macro.v.lines) + 1),
                            !._line_co = @ + Len(macro.v.lines) - 1]
        ELSE IF _is_include_directive(line)
        THEN IF Contains(stripped, <<":">>) THEN PopLine(b)
             ELSE IF Failed(included) THEN included
             ELSE PopLine([included EXCEPT !._line_co = b._line_co,
                                           !.lines = b.lines, !.file = b.file,
                                           !.line_count = b.line_count])
        ELSE IF _is_symbol_definition(line)
        THEN PopLine([b EXCEPT !._symbol_lut =
                         DictSet(@, Strip(Split(stripped, <<":">>)[1]), here)])
        ELSE IF _is_const_assignment(line)
        THEN With(Pass1ConstAssignment(b, stripped), LAMBDA c :
                 IF Failed(c) THEN c ELSE PopLine(c))
        ELSE PopLine(b))))))))))

\* The loop of _prg_pass_1 from the first of a.lines to the end of the file.
Pass1Loop(a, fs) ==
    IF Failed(a) \/ a.lines = <<>> THEN a ELSE Pass1Loop(Pass1Line(a, fs), fs)

\* The assert that follows the loop of a scan.
AssertLineCount(a) ==
    IF ~Failed(a) /\ a.line_count # a._line_co THEN ApRaise(a, "AssertionError")
    ELSE a

\* Opening the file of a scan: _line_co = 0, lines = f.readlines().
OpenScan(a, fs, file) ==
    IF file \notin DOMAIN fs THEN ApRaise(a, "FileNotFoundError")
    ELSE [a EXCEPT !._line_co = 0, !.file = file, !.lines = fs[file],
                   !.line_count = Len(fs[file])]

\* A whole call of _prg_pass_1, as the entry scan and an include make it.
_prg_pass_1(a, fs, prg_file) ==
    AssertLineCount(Pass1Loop(OpenScan(a, fs, prg_file), fs))

----------------------------------------------------------------------------
(* The entry-file scan: AssemblyParser._parse_smb3_asm and its helpers.    *)

\* int(value) of a word: an optional sign and decimal digits.
IntWord(value) ==
    IF IsNumeric(value) THEN Returned(int(value))
    ELSE IF Len(value) > 1 /\ value[1] = "+" /\ IsNumeric(Tail(value))
    THEN Returned(int(Tail(value)))
    ELSE IF Len(value) > 1 /\ value[1] = "-" /\ IsNumeric(Tail(value))
    THEN Returned(0 - int(Tail(value)))
    ELSE Raised("ValueError")

\* x >> 4 and x & 0x0F of Python integers (floor division, also below 0).
ShiftRight4(x) == IF x >= 0 THEN x \div 16 ELSE 0 - ((15 - x) \div 16)
LowNibble(x) == x - 16 * ShiftRight4(x)

\* AssemblyParser._handle_ines_directive
_handle_ines_directive(a) ==
    With(Words(data_source_strip_comment(a.lines[1])), LAMBDA words :
    With(words[1], LAMBDA ines_directive :
    With(IntWord(words[2]), LAMBDA value :
        IF Len(words) # 2 THEN ApRaise(a, "ValueError")
        ELSE IF ines_directive \in {<<".", "i", "n", "e", "s", "p", "r", "g">>, <<".", "i",
        "n", "e", "s", "c", "h", "r">>, <<".", "i", "n", "e", "s", "m", "a", "p">>, <<".", "i",
        "n", "e", "s", "m", "i", "r">>}
                /\ ~value.ok
        THEN ApRaise(a, value.v)
        ELSE PopLine(
            IF ines_directive = <<".", "i", "n", "e", "s", "p", "r",
        "g">> THEN [a EXCEPT !._prg_count = value.v]
            ELSE IF ines_directive = <<".", "i", "n", "e", "s", "c", "h",
        "r">> THEN [a EXCEPT !._chr_count = value.v]
            ELSE IF ines_directive = <<".", "i", "n", "e", "s", "m", "a", "p">>
            THEN [a EXCEPT !._ines_mapper = ShiftRight4(value.v)]
            ELSE IF ines_directive = <<".", "i", "n", "e", "s", "m", "i", "r">>
            THEN [a EXCEPT !._ines_mirror = LowNibble(value.v)]
            ELSE a))))

\* The loop of _try_bank_directive over the lines after the ".bank" line.
RECURSIVE BankDefinition(_, _, _)
BankDefinition(a, fs, bank_index) ==
    With(       IF a.lines = <<>> THEN <<>>
                ELSE data_source_strip_comment(a.lines[1]), LAMBDA line :
    With([PopLine(a) EXCEPT !._line_co = @ + 1], LAMBDA b :
    With(Split(line, <<" ">>), LAMBDA parts :
    With(Replace(parts[2], <<"\"">>, <<>>), LAMBDA absolute_path :
    With(IntWord(bank_index), LAMBDA index :
    With(          _prg_pass_1([b EXCEPT !._prg_lut =
                                   OrderedSet(@, index.v, absolute_path)],
                               fs, absolute_path), LAMBDA scanned :
        IF line = <<>>
        THEN ApRaise(IF a.lines = <<>> THEN a ELSE PopLine(a),
                     "ValueError: Ran out of lines in bank definition")
        ELSE IF StartsWith(line, <<".", "o", "r", "g">>) THEN BankDefinition(b, fs, bank_index)
        ELSE IF ~StartsWith(line, <<".", "i", "n", "c", "l", "u", "d", "e">>)
        THEN ApRaise(b, "ValueError: Encountered unexpected line")
        ELSE IF Len(parts) # 2 THEN ApRaise(b, "ValueError")
        ELSE IF ~index.ok THEN ApRaise(b, index.v)
        ELSE IF Failed(scanned) THEN scanned
        ELSE [scanned EXCEPT !._line_co = b._line_co, !.lines = b.lines,
                             !.file = b.file, !.line_count = b.line_count]))))))

\* AssemblyParser._try_bank_directive, on a first line holding ".bank".
_try_bank_directive(a, fs) ==
    With(Split(data_source_strip_comment(a.lines[1]), <<" ">>), LAMBDA parts :
        IF Len(parts) # 2 THEN ApRaise(PopLine(a), "ValueError")
        ELSE BankDefinition(PopLine(a), fs, parts[2]))

\* AssemblyParser._try_incchr_directive, on a first line holding ".incchr".
_try_incchr_directive(a, fs) ==
    With(Split(data_source_strip_comment(a.lines[1]), <<" ">>), LAMBDA parts :
    With(Replace(parts[2], <<"\"">>, <<>>), LAMBDA absolute_path :
        IF Len(parts) # 2 THEN ApRaise(PopLine(a), "ValueError")
        ELSE IF absolute_path \notin DOMAIN fs
        THEN ApRaise([PopLine(a) EXCEPT !._chr_lut = Append(@, absolute_path)],
                     "ValueError: Could not load")
        ELSE [PopLine(a) EXCEPT !._chr_lut = Append(@, absolute_path)]))

\* str.removeprefix
RemovePrefix(s, pre) == IF StartsWith(s, pre) THEN Drop(s, Len(pre) + 1) ELSE s

\* The const assignment branch of _parse_smb3_asm, on the stripped line.
EntryConstAssignment(a, stripped) ==
    With(Strip(Split(stripped, <<"=">>)[1]), LAMBDA name :
    With(Strip(Split(stripped, <<"=">>)[2]), LAMBDA value :
        IF name \in DOMAIN a._const_lut
        THEN ApRaise(a, "ValueError: Redefinition")
        ELSE IF _is_calculation(value)
        THEN IF _parse_calculation_raises(value)
             THEN ApRaise(a, "ValueError: Couldn't parse calculation")
             ELSE [a EXCEPT !._const_lut = DictSet(@, name, StrValue(<<"x", "x">>))]
        ELSE [a EXCEPT !._const_lut = DictSet(@, name, StrValue(value))]))

\* One iteration of the loop of _parse_smb3_asm, on the first of a.lines.
EntryLine(a, fs) ==
    With(Replace(a.lines[1], <<"\t">>, <<" ">>), LAMBDA line :
    With(data_source_strip_comment(line), LAMBDA stripped :
    With([a EXCEPT !._line_co = @ + 1], LAMBDA b :
    With(_parse_number(RemovePrefix(stripped, <<".", "o", "r", "g">>)), LAMBDA org :
    With(Split(stripped, <<".", "d", "s">>), LAMBDA ds :
    With(_parse_number(ds[2]), LAMBDA region_size :
    With(parse_macro(a.lines), LAMBDA macro :
        IF _is_empty_line(line) \/ _is_only_comment(line) THEN PopLine(b)
        ELSE IF _is_org_directive(line)
        THEN IF ~org.ok THEN ApRaise(b, org.v)
             ELSE PopLine([b EXCEPT !.ram_address = org.v])
        ELSE IF _is_ds_directive_raises(line) THEN ApRaise(b, "ValueError")
        ELSE IF _is_ds_directive(line)
        THEN IF Len(ds) # 2 THEN ApRaise(PopLine(b), "ValueError")
             ELSE IF ~region_size.ok THEN ApRaise(PopLine(b), region_size.v)
             ELSE [PopLine(b) EXCEPT
                      !._ram_lut = DictSet(@, Strip(Replace(ds[1], <<":">>, <<>>)),
                                           AsmPosition(a.file, b._line_co,
                                                       b.ram_address)),
                      !.ram_address = @ + region_size.v]
        ELSE IF _is_func_directive(line)
        THEN PopLine([b EXCEPT !._func_lut =
                 DictSet(@, Replace(Strip(Split(stripped, <<" ">>)[1]), <<":">>, <<>>),
                         AsmPosition(smb3_asm_file, b._line_co, 0))])
        ELSE IF _is_ines_directive(line) THEN _handle_ines_directive(b)
        ELSE IF Contains(a.lines[1], <<".", "b", "a", "n", "k">>) THEN _try_bank_directive(b, fs)
        ELSE IF Contains(a.lines[1], <<".", "i", "n", "c", "c", "h",
        "r">>) THEN _try_incchr_directive(b, fs)
        ELSE IF _is_ignored_directive(line) THEN PopLine(b)
        ELSE IF macro_on_line(line) # <<>>
        THEN IF ~macro.ok THEN ApRaise(b, macro.v)
             ELSE [b EXCEPT !._macro_lut = DictSet(@, macro.v.name, macro.v.lines),
                            !.lines = Drop(@, Len(macro.v.lines) + 1),
                            !._line_co = @ + Len(macro.v.lines) - 1]
        ELSE IF _is_generic_directive(line)
        THEN ApRaise(PopLine(b), "ValueError: Unhandled Directive")
        ELSE IF _is_const_assignment(line)
        THEN EntryConstAssignment(PopLine(b), stripped)
        ELSE IF _is_symbol_definition(line)
        THEN PopLine([b EXCEPT !._ram_lut =
                         DictSet(@, Strip(Split(stripped, <<":">>)[1]),
                                 AsmPosition(a.file, b._line_co, b.ram_address))])
        ELSE ApRaise(PopLine(b), "ValueError: What was that?"))))))))

----------------------------------------------------------------------------
(* The FormulaParser (formula_parser.py).  The tree is a sequence of Leaf  *)
(* objects; a leaf is named by its index, the Root is leaf 1 and parent 0  *)
(* is None.  A parser is a record of the fields of the object, and error   *)
(* holds the exception that ended parse().                                  *)

Leaf(value, leaf_type) ==
    [value |-> value, leaf_type |-> leaf_type, parent |-> 0, leaves |-> <<>>]

\* FormulaParser.__init__
FormulaParser(line) ==
    [_line |-> line, _state |-> "NEUTRAL", _current_leaf |-> 1,
     _last_char_was_comma |-> TRUE, tree |-> <<Leaf(<<>>, "ROOT")>>,
     parts |-> <<>>, _function_names |-> <<>>, _numbers |-> <<>>,
     _operators |-> <<>>, _symbols |-> <<>>, error |-> ""]

FpRaise(f, e) == [f EXCEPT !.error = e]

_OPERATOR_NUMERAL_OVERLAY == {c \in Range(<<"$", "%", "+", "-">>) : <<c>> \in Range(OPERATORS)}

_is_operator(char) == <<char>> \in Range(OPERATORS) \/ char \in {"<", ">"}
_is_macro_param_start(char) == char = "\\"
_is_numeral_start(char) == char \in Range(<<"$", "%", "+", "-">>) \/ IsNumericChar(char)
_is_binary_start(char) == char = "%"
_is_binary_end(char) == char \notin {"0", "1"}
_is_hexadecimal_start(char) == char = "$"
_is_hexadecimal_end(char) ==
    ~IsNumericChar(char) /\ UpperChar(char) \notin Range(<<"A", "B", "C", "D", "E", "F">>)
_is_symbol_start(char) == IsAlphaChar(char) \/ char = "_"
_is_symbol_char(char) == IsAlnumChar(char) \/ char = "_"

CurrentLeaf(f) == f.tree[f._current_leaf]
_current_buffer(f) == CurrentLeaf(f).value

\* FormulaParser._skip and _take
_skip(f) ==
    [f EXCEPT !._last_char_was_comma =
                  IF IsSpace(f._line[1]) THEN @ ELSE f._line[1] = ",",
              !._line = Tail(@)]
_take(f) ==
    _skip([f EXCEPT !.tree[f._current_leaf].value = Append(@, f._line[1])])

\* FormulaParser._new_leaf: append under the current leaf and descend.
_new_leaf(f, leaf) ==
    With(Len(f.tree) + 1, LAMBDA id :
        [f EXCEPT !.tree = Append([@ EXCEPT ![f._current_leaf].leaves =
                                                Append(@, id)],
                                  [leaf EXCEPT !.parent = f._current_leaf]),
                  !._current_leaf = id])

\* FormulaParser._save_buffer into parts; which is the list it also joins.
_save_buffer(f, which) ==
    With(_current_buffer(f), LAMBDA buffer :
        [f EXCEPT !.parts = Append(@, buffer),
                  !._function_names = IF which = "_function_names"
                                      THEN Append(@, buffer) ELSE @,
                  !._numbers = IF which = "_numbers" THEN Append(@, buffer) ELSE @,
                  !._operators = IF which = "_operators"
                                 THEN Append(@, buffer) ELSE @,
                  !._symbols = IF which = "_symbols" THEN Append(@, buffer) ELSE @])

\* Back to the parent of the current leaf, in state NEUTRAL.
ToParent(f) ==
    IF CurrentLeaf(f).parent = 0 THEN FpRaise(f, "AssertionError")
    ELSE [f EXCEPT !._current_leaf = CurrentLeaf(f).parent, !._state = "NEUTRAL"]

_end_number(f) == ToParent(_save_buffer(f, "_numbers"))
_end_operator(f) == ToParent(_save_buffer(f, "_operators"))
_end_macro_param(f) == ToParent(_save_buffer(f, "_symbols"))

\* FormulaParser._end_symbol
_end_symbol(f, char) ==
    IF char = "("
    THEN [_save_buffer([f EXCEPT !.tree[f._current_leaf].leaf_type =
                                     "FUNCTION_NAME"], "_function_names")
             EXCEPT !._state = "NEUTRAL"]
    ELSE ToParent(_save_buffer(f, "_symbols"))

\* Leaf.__eq__ of the dataclass, between two children of one parent:
\* "eq", "ne", or "rec" when the comparison of their children comes back
\* to the two leaves and never ends.
LeafEq(tree, n, m) ==
    IF n = m THEN "eq"
    ELSE IF tree[n].value # tree[m].value \/ tree[n].leaf_type # tree[m].leaf_type
    THEN "ne"
    ELSE IF Len(tree[n].leaves) # Len(tree[m].leaves) THEN "ne"
    ELSE IF tree[n].leaves = <<>> THEN "eq"
    ELSE With(tree[tree[n].leaves[1]], LAMBDA c :
         With(tree[tree[m].leaves[1]], LAMBDA d :
             IF c.value = d.value /\ c.leaf_type = d.leaf_type THEN "rec"
             ELSE "ne"))

\* list.remove(x): the index of the first item equal to x, or 0 when the
\* comparison with an earlier item does not end.
RemoveIndex(tree, leaves, x) ==
    With({i \in 1..Len(leaves) : LeafEq(tree, leaves[i], x) # "ne"}, LAMBDA hits :
    With(CHOOSE i \in hits : \A j \in hits : i <= j, LAMBDA first :
        IF LeafEq(tree, leaves[first], x) = "rec" THEN 0 ELSE first))

RemoveAt(seq, i) == SubSeq(seq, 1, i - 1) \o SubSeq(seq, i + 1, Len(seq))

\* FormulaParser._insert_parent: a new leaf takes the place of cur_leaf
\* under its parent, and cur_leaf becomes the child of the new leaf.
_insert_parent(f, cur_leaf, leaf_type) ==
    With(f.tree[cur_leaf].parent, LAMBDA old_parent :
    With(Len(f.tree) + 1, LAMBDA new_parent :
    With(Append(f.tree[old_parent].leaves, new_parent), LAMBDA siblings :
    With(RemoveIndex(f.tree, f.tree[old_parent].leaves, cur_leaf), LAMBDA gone :
        IF old_parent = 0 THEN FpRaise(f, "AttributeError")
        ELSE IF f.tree[old_parent].leaves[Len(f.tree[old_parent].leaves)] # cur_leaf
        THEN FpRaise(f, "AssertionError")
        ELSE IF gone = 0 THEN FpRaise(f, "RecursionError")
        ELSE [f EXCEPT
                 !.tree = Append(
                     [@ EXCEPT ![old_parent].leaves = RemoveAt(siblings, gone),
                               ![cur_leaf].parent = new_parent],
                     [Leaf(<<>>, leaf_type) EXCEPT !.parent = old_parent,
                                                   !.leaves = <<cur_leaf>>]),
                 !._current_leaf = new_parent]))))

\* FormulaParser._maybe_insert_parent
_maybe_insert_parent(f, leaf_type) ==
    With(CurrentLeaf(f), LAMBDA cur :
        IF cur.leaf_type = leaf_type THEN f
        ELSE IF leaf_type = "LISTING" /\ cur.leaf_type = "FORMULA"
        THEN IF cur.parent = 0 THEN FpRaise(f, "AssertionError")
             ELSE IF f.tree[cur.parent].leaf_type = "LISTING"
             THEN [f EXCEPT !._current_leaf = cur.parent]
             ELSE _insert_parent(f, f._current_leaf, leaf_type)
        ELSE IF cur.leaves = <<>> THEN FpRaise(f, "AssertionError")
        ELSE _insert_parent(f, cur.leaves[Len(cur.leaves)], leaf_type))

\* A ")" that goes back to the function name only.
FunctionParamsEndAtName(tree, leaf) == tree[leaf].parent

\* The leaf a ")" returns to from the FUNCTION_PARAMS leaf: the parent of
\* its function name.
FunctionParamsEnd(tree, leaf) == tree[tree[leaf].parent].parent

\* The leaf a ")" returns to: from the current leaf upwards, the parent of
\* the function name of the first FUNCTION_PARAMS, or the parent of the
\* first PARENS; 0 when the Root is reached, -1 when an assert fails.
RECURSIVE CloseParens(_, _)
CloseParens(tree, leaf) ==
    IF tree[leaf].leaf_type = "ROOT" THEN 0
    ELSE IF tree[leaf].leaf_type = "FUNCTION_PARAMS"
    THEN IF tree[leaf].parent = 0 \/ tree[tree[leaf].parent].parent = 0 THEN -1
         ELSE FunctionParamsEnd(tree, leaf)
    ELSE IF tree[leaf].parent = 0 THEN -1
    ELSE IF tree[leaf].leaf_type = "PARENS" THEN tree[leaf].parent
    ELSE CloseParens(tree, tree[leaf].parent)

_do_neutral(f, char) ==
    With(CloseParens(f.tree, f._current_leaf), LAMBDA back :
        IF _is_symbol_start(char) THEN [f EXCEPT !._state = "SYMBOL"]
        ELSE IF _is_numeral_start(char) THEN [f EXCEPT !._state = "NUMERAL"]
        ELSE IF char = "("
        THEN IF CurrentLeaf(f).leaf_type = "FUNCTION_NAME"
             THEN [f EXCEPT !._state = "FUNCTION_PARAMS"]
             ELSE [f EXCEPT !._state = "PARENS"]
        ELSE IF char = ")"
        THEN IF back = 0 THEN FpRaise(f, "ValueError: no opening parenthesis")
             ELSE IF back = -1 THEN FpRaise(f, "AssertionError")
             ELSE [_skip([f EXCEPT !._current_leaf = back])
                      EXCEPT !._state = "NEUTRAL"]
        ELSE IF char = ";" THEN [f EXCEPT !._state = "COMMENT"]
        ELSE IF _is_operator(char) THEN [f EXCEPT !._state = "OPERATOR"]
        ELSE IF _is_macro_param_start(char) THEN [f EXCEPT !._state = "MACRO_PARAM"]
        ELSE IF IsSpace(char) THEN _skip(f)
        ELSE IF char = ","
        THEN With(_maybe_insert_parent(f, "LISTING"), LAMBDA g :
                 IF g.error # "" THEN g ELSE _skip(g))
        ELSE FpRaise(f, "ValueError: Not sure what to do"))

\* The leaf _do_macro_param opens at the backslash.
MacroParamAsSymbol(value) == Leaf(value, "SYMBOL")
MacroParamLeaf(value) == Leaf(value, "MACRO_PARAM")

_do_macro_param(f, char) ==
    IF CurrentLeaf(f).leaf_type = "MACRO_PARAM"
    THEN IF ~(IsNumericChar(char) /\ char # "0") THEN FpRaise(f, "AssertionError")
         ELSE _end_macro_param(_take(f))
    ELSE _take(_new_leaf(f, MacroParamLeaf(<<>>)))

_do_symbol(f, char) ==
    IF ~_is_symbol_char(char) THEN _end_symbol(f, char)
    ELSE _take(IF CurrentLeaf(f).leaf_type # "SYMBOL"
               THEN _new_leaf(f, Leaf(<<>>, "SYMBOL")) ELSE f)

_do_operator(f, char) ==
    With(_current_buffer(f), LAMBDA buffer :
    With(_maybe_insert_parent(f, "FORMULA"), LAMBDA g :
        IF CurrentLeaf(f).leaf_type # "OPERATOR"
        THEN IF g.error # "" THEN g ELSE _new_leaf(g, Leaf(<<>>, "OPERATOR"))
        ELSE IF Append(buffer, char) \in Range(OPERATORS) THEN _take(f)
        ELSE IF buffer \in Range(OPERATORS) THEN _end_operator(f)
        ELSE IF IsSpace(char) THEN _skip(f)
        ELSE IF buffer = <<>> /\ char = ">" THEN _take(f)
        ELSE FpRaise(f, "ValueError: What?")))


\* A numeral state that hands every character back to the neutral state.
NumeralToNeutral(f, char) == [f EXCEPT !._state = "NEUTRAL"]

\* A sign or "%" makes _do_numeral read LeafType.LIST, which the
\* enumeration does not have.
_do_numeral(f, char) ==
    IF char \in _OPERATOR_NUMERAL_OVERLAY THEN FpRaise(f, "AttributeError: LIST")
    ELSE IF _is_hexadecimal_start(char) THEN [f EXCEPT !._state = "HEXADECIMAL"]
    ELSE IF IsNumericChar(char) THEN [f EXCEPT !._state = "DECIMAL"]
    ELSE [f EXCEPT !._state = "NEUTRAL"]

_do_function_params(f) ==
    [_skip(_new_leaf(f, Leaf(<<"(", ")">>, "FUNCTION_PARAMS"))) EXCEPT !._state = "NEUTRAL"]

_do_parens(f) ==
    [_skip(_new_leaf(f, Leaf(<<"(", ")">>, "PARENS"))) EXCEPT !._state = "NEUTRAL"]

_new_number_leaf(f) == _new_leaf(f, Leaf(<<>>, "NUMBER"))

_do_binary(f, char) ==
    IF _is_binary_start(char)
    THEN IF CurrentLeaf(f).leaf_type = "NUMBER"
         THEN FpRaise(f, "ValueError: Starting a binary number")
         ELSE _take(f)
    ELSE IF _is_binary_end(char) THEN _end_number(f)
    ELSE _take(f)

_do_decimal(f, char) ==
    With(IF CurrentLeaf(f).leaf_type # "NUMBER" THEN _new_number_leaf(f) ELSE f, LAMBDA g :
        IF IsNumericChar(char) THEN _take(g) ELSE _end_number(g))

_do_hexadecimal(f, char) ==
    With(_current_buffer(f), LAMBDA buffer :
        IF _is_hexadecimal_start(char)
        THEN IF buffer # <<>> /\ _is_hexadecimal_start(buffer[Len(buffer)])
             THEN FpRaise(f, "ValueError: Starting a hexadecimal number")
             ELSE _take(IF CurrentLeaf(f).leaf_type # "NUMBER"
                        THEN _new_number_leaf(f) ELSE f)
        ELSE IF _is_hexadecimal_end(char) THEN _end_number(f)
        ELSE _take(f))

\* One iteration of the loop of parse(): the function of the state, on
\* the first character of the line.  No state leads to BINARY.
state_func(f) ==
    With(f._line[1], LAMBDA char :
        IF f._state = "NEUTRAL" THEN _do_neutral(f, char)
        ELSE IF f._state = "SYMBOL" THEN _do_symbol(f, char)
        ELSE IF f._state = "NUMERAL" THEN _do_numeral(f, char)
        ELSE IF f._state = "BINARY" THEN _do_binary(f, char)
        ELSE IF f._state = "DECIMAL" THEN _do_decimal(f, char)
        ELSE IF f._state = "HEXADECIMAL" THEN _do_hexadecimal(f, char)
        ELSE IF f._state = "FUNCTION_PARAMS" THEN _do_function_params(f)
        ELSE IF f._state = "PARENS" THEN _do_parens(f)
        ELSE IF f._state = "OPERATOR" THEN _do_operator(f, char)
        ELSE IF f._state = "MACRO_PARAM" THEN _do_macro_param(f, char)
        ELSE IF f._state = "COMMENT" THEN [f EXCEPT !._state = "END"]
        ELSE FpRaise(f, "ValueError: No state matching"))

\* The loop of parse() goes on.
ParseLoops(f) == f.error = "" /\ f._line # <<>> /\ f._state # "END"

\* _VALID_END_STATES: the states parse() may end in.
EndsInAnyState(state) == TRUE
EndsInValidState(state) == state \in {"END", "NEUTRAL"}

\* What parse() does after its loop.
ParseEnd(f) ==
    With(    IF f._state = "SYMBOL" THEN _end_symbol(f, "")
             ELSE IF f._state \in {"BINARY", "DECIMAL", "HEXADECIMAL"}
             THEN _end_number(f)
             ELSE f, LAMBDA g :
        IF g.error # "" THEN g
        ELSE IF ~EndsInValidState(g._state)
        THEN FpRaise(g, "ValueError: Ran out of characters")
        ELSE g)

\* FormulaParser.parse, from the construction to its return or error.
RECURSIVE ParseFrom(_)
ParseFrom(f) ==
    IF f.error # "" THEN f
    ELSE IF ParseLoops(f) THEN ParseFrom(state_func(f))
    ELSE ParseEnd(f)
parse(line) == ParseFrom(FormulaParser(line))

----------------------------------------------------------------------------
(* Byte accounting: pass 2 of the resolver and the counting functions.     *)

\* The depth at which a macro that invokes itself, or a file that includes
\* itself, ends the run with a RecursionError.
RecursionLimit == 3

\* AssemblyParser._count_occurrences.  The operand that is not a quoted
\* text is parsed, and then LeafType.LIST is read, which the enumeration
\* of formula_parser.py does not have.
_count_occurrences(line, delimiter) ==
    With(IF delimiter = BYTE_DIRECTIVE THEN 1 ELSE 2, LAMBDA occurrence_value :
    With(Split(data_source_strip_comment(line), delimiter), LAMBDA parts :
    With(Strip(parts[2]), LAMBDA definition :
    With(parse(definition), LAMBDA parsed :
        IF delimiter \notin {BYTE_DIRECTIVE, WORD_DIRECTIVE}
        THEN Raised("ValueError: Bruh, What?")
        ELSE IF Len(parts) # 2 THEN Raised("ValueError")
        ELSE IF definition = <<>> THEN Raised("IndexError")
        ELSE IF definition[1] = "\"" /\ definition[Len(definition)] = "\""
        THEN Returned(Len(definition) - 2)
        ELSE IF parsed.error # "" THEN Raised(parsed.error)
        ELSE IF Len(parsed.tree[1].leaves) # 1 THEN Raised("AssertionError")
        ELSE Raised("AttributeError: LIST")))))

\* AssemblyParser._count_bytes_or_words
_count_bytes_or_words(line) ==
    IF Contains(line, BYTE_DIRECTIVE) THEN _count_occurrences(line, BYTE_DIRECTIVE)
    ELSE IF Contains(line, WORD_DIRECTIVE)
    THEN _count_occurrences(line, WORD_DIRECTIVE)
    ELSE Raised("ValueError: Bruh, What?")

\* AssemblyParser._num_or_const
_num_or_const(a, line) ==
    IF Strip(line) \in DOMAIN a._const_lut
    THEN IF a._const_lut[Strip(line)].type = "int"
         THEN Returned(a._const_lut[Strip(line)].n)
         ELSE Raised("TypeError")
    ELSE _parse_number(Strip(line))

\* AssemblyParser._count_instruction_args
_count_instruction_args(a, args) ==
    With(Replace(args, <<" ">>, <<>>), LAMBDA no_space :
    With(Replace(Replace(no_space, <<",", "X">>, <<>>), <<",", "Y">>, <<>>), LAMBDA operand :
    With(parse(operand), LAMBDA parsed :
    With(_num_or_const(a, operand), LAMBDA number :
        IF StartsWith(no_space, <<"#">>) THEN Returned(2)
        ELSE IF StartsWith(no_space, <<"<">>) \/ StartsWith(no_space, <<"[">>)
        THEN Returned(2)
        ELSE IF parsed.error # "" THEN Raised(parsed.error)
        ELSE IF \E i \in 1..Len(parsed.parts) : parsed.parts[i] \in DOMAIN a._ram_lut
        THEN Returned(3)
        ELSE IF \E i \in 1..Len(parsed.parts) :
                    \/ parsed.parts[i] \in DOMAIN a._symbol_lut
                    \/ parsed.parts[i] \in DOMAIN a._const_lut
        THEN Returned(3)
        ELSE IF ~number.ok THEN number
        ELSE IF number.v > 255 THEN Returned(3)
        ELSE Returned(2)))))

\* AssemblyParser._count_instruction
_count_instruction(a, line) ==
    With(data_source_strip_comment(line), LAMBDA stripped :
    With(SplitOnce(stripped, <<" ">>), LAMBDA split :
    With(split[1], LAMBDA opcode :
    With(IF Contains(stripped, <<" ">>) THEN split[2] ELSE <<>>, LAMBDA args :
        IF EndsWith(stripped, <<" ", "A">>) THEN Returned(1)
        ELSE IF Upper(opcode) \notin INSTRUCTIONS THEN Raised("AssertionError")
        ELSE IF args = <<>> THEN Returned(1)
        ELSE IF Upper(opcode) \in RELATIVE_ADDRESSING_INSTRUCTIONS THEN Returned(2)
        ELSE IF Upper(opcode) = <<"J", "M", "P">> THEN Returned(3)
        ELSE _count_instruction_args(a, args)))))

\* A map that keeps the position an offset was first recorded with.
AddBytesOnce(a, byte_count) ==
    [a EXCEPT !._bytes_to_lines =
                  IF a._current_prg_offset + a._current_byte_offset
                         \in Range(OrderedKeys(@))
                  THEN @
                  ELSE Append(@, [key |-> a._current_prg_offset + a._current_byte_offset,
                                  value |-> AsmPosition(a.file, a._line_co, 0)]),
              !._current_byte_offset = @ + byte_count]

\* AssemblyParser._add_bytes
_add_bytes(a, byte_count) ==
    [a EXCEPT !._bytes_to_lines =
                  OrderedSet(@, a._current_prg_offset + a._current_byte_offset,
                             AsmPosition(a.file, a._line_co, 0)),
              !._current_byte_offset = @ + byte_count]

\* Counting a line and adding its bytes, or failing with its error.
AddCounted(a, counted) ==
    IF counted.ok THEN _add_bytes(a, counted.v) ELSE ApRaise(a, counted.v)

\* The path an ".include" names: without quotes, with ".asm".
IncludePath(text) ==
    With(Strip(Replace(text, <<"\"">>, <<>>)), LAMBDA path :
        IF EndsWith(path, <<".", "a", "s", "m">>) THEN path ELSE path \o <<".", "a", "s", "m">>)

\* AssemblyParser._count_include_bytes: the data bytes of a file and of
\* the files it includes.
RECURSIVE SumLines(_, _, _)
RECURSIVE _count_include_bytes(_, _, _)
SumLines(fs, lines, depth) ==
    With(lines[1], LAMBDA line :
    With(      IF _is_byte(line) \/ _is_word(line) THEN _count_bytes_or_words(line)
               ELSE IF _is_include_directive(line)
               THEN With(Split(data_source_strip_comment(line),
                               <<".", "i", "n", "c", "l", "u", "d", "e">>),
                         LAMBDA parts :
                        IF Len(parts) # 2 THEN Raised("ValueError")
                        ELSE With(IncludePath(parts[2]), LAMBDA path :
                             IF path \notin DOMAIN fs THEN Raised("AssertionError")
                             ELSE _count_include_bytes(fs, path, depth + 1)))
               ELSE Returned(0), LAMBDA own :
    With(SumLines(fs, Tail(lines), depth), LAMBDA rest :
        IF lines = <<>> THEN Returned(0)
        ELSE IF ~own.ok THEN own
        ELSE IF ~rest.ok THEN rest
        ELSE Returned(own.v + rest.v))))
_count_include_bytes(fs, path, depth) ==
    IF depth > RecursionLimit THEN Raised("RecursionError")
    ELSE IF path \notin DOMAIN fs THEN Raised("FileNotFoundError")
    ELSE SumLines(fs, fs[path], depth)

\* Macro.expand: the lines of the macro that are not empty, with "\1",
\* "\2", ... replaced by the arguments, in this order.
RECURSIVE str(_)
str(n) == IF n < 10 THEN <<Digits[n + 1]>>
          ELSE str(n \div 10) \o <<Digits[(n % 10) + 1]>>
RECURSIVE Substitute(_, _, _)
Substitute(line, args, arg_no) ==
    IF arg_no > Len(args) THEN line
    ELSE Substitute(Replace(line, <<"\\">> \o str(arg_no), args[arg_no]),
                    args, arg_no + 1)
ExpandedEveryLine(lines, args) ==
    [i \in 1..Len(lines) |-> Substitute(lines[i], args, 1)]
expand(lines, args) ==
    With(SelectSeq(lines, LAMBDA l : l # <<>>), LAMBDA kept :
        [i \in 1..Len(kept) |-> Substitute(kept[i], args, 1)])

\* AssemblyParser._count_macro: the lines between the first and the last
\* expanded line are counted and added one after the other.
RECURSIVE _count_macro(_, _, _, _)
RECURSIVE CountExpanded(_, _, _)
CountExpanded(a, expanded_lines, depth) ==
    With(expanded_lines[1], LAMBDA expanded_line :
    With(_is_macro_invoke(a, expanded_line), LAMBDA inner_macro_name :
    With(
            IF inner_macro_name # <<>>
            THEN _count_macro(a, expanded_line, inner_macro_name, depth + 1)
            ELSE IF _is_byte(expanded_line) \/ _is_word(expanded_line)
            THEN AddCounted(a, _count_bytes_or_words(expanded_line))
            ELSE AddCounted(a, _count_instruction(a, expanded_line)), LAMBDA counted :
        IF Failed(a) \/ expanded_lines = <<>> THEN a
        ELSE CountExpanded(counted, Tail(expanded_lines), depth))))
_count_macro(a, line, macro_name, depth) ==
    With(Split(Replace(line, macro_name \o <<" ">>, <<>>), <<",">>), LAMBDA args :
    With(expand(a._macro_lut[macro_name], args), LAMBDA expanded :
        IF depth > RecursionLimit THEN ApRaise(a, "RecursionError")
        ELSE IF ~StartsWith(line, macro_name) THEN ApRaise(a, "AssertionError")
        ELSE IF Len(expanded) < 2 THEN ApRaise(a, "ValueError")
        ELSE CountExpanded(a, SubSeq(expanded, 2, Len(expanded) - 1), depth)))

\* The end of a macro definition in pass 2: the lines up to and with the
\* first that holds ".endm" are skipped; without one, lines[0] fails.
SkipMacroDefinition(a) ==
    With({i \in 1..Len(a.lines) : Contains(a.lines[i], <<".", "e", "n", "d", "m">>)}, LAMBDA ends :
    With(CHOOSE i \in ends : \A j \in ends : i <= j, LAMBDA last :
        IF ends = {}
        THEN ApRaise([a EXCEPT !._line_co = @ + Len(a.lines), !.lines = <<>>],
                     "IndexError")
        ELSE [a EXCEPT !._line_co = @ + last, !.lines = Drop(@, last + 1)]))

\* The line pass 2 tolerates although it matches no classification, and
\* the offset in the bank it continues with.
KnownBadLine == <<"o", "r", "g", " ", "$", "D", "8", "0", "0">>
KnownBadLineOffset == 55296 % 8192

\* A pass 2 that goes on after a line it cannot classify.
IgnoredLineSkipped(b, stripped) == b

\* The last branch of _prg_pass_2: the line matched no classification.
IgnoredLine(b, stripped) ==
    IF stripped # KnownBadLine
    THEN ApRaise(b, "ValueError: What was that?")
    ELSE [b EXCEPT !._current_byte_offset = KnownBadLineOffset]

\* One iteration of the loop of _prg_pass_2, on the first of a.lines.
Pass2Line(a, fs) ==
    With(Strip(Replace(a.lines[1], <<"\t">>, <<" ">>)), LAMBDA line :
    With(data_source_strip_comment(line), LAMBDA stripped :
    With(PopLine([a EXCEPT !._line_co = @ + 1]), LAMBDA b :
    With(_is_macro_invoke(b, line), LAMBDA macro_name :
    With(Split(stripped, <<".", "i", "n", "c", "l", "u", "d", "e">>), LAMBDA include :
    With(_count_include_bytes(fs, IncludePath(include[2]), 1), LAMBDA included :
    With(Split(stripped, <<":">>), LAMBDA parts :
        IF _is_empty_line(line) \/ _is_only_comment(line) THEN b
        ELSE IF _is_byte(line) \/ _is_word(line)
        THEN AddCounted(b, _count_bytes_or_words(line))
        ELSE IF _is_ignored_directive(line) THEN b
        ELSE IF _is_func_directive(line)
        THEN [b EXCEPT !._func_lut = DictSet(@, Strip(Split(stripped, <<" ">>)[1]),
                                             AsmPosition(smb3_asm_file, b._line_co, 0))]
        ELSE IF _is_instruction(line) THEN AddCounted(b, _count_instruction(b, line))
        ELSE IF macro_on_line(line) # <<>> THEN SkipMacroDefinition(b)
        ELSE IF macro_name # <<>> THEN _count_macro(b, line, macro_name, 1)
        ELSE IF _is_func_call_raises(b, line)
        THEN ApRaise([b EXCEPT !.lines = a.lines],
                     "ValueError: Function call not found")
        ELSE IF _is_func_call(b, line) THEN b
        ELSE IF _is_const_assignment(line) THEN b
        ELSE IF _is_include_directive(line)
        THEN IF Len(include) # 2 THEN ApRaise(b, "ValueError")
             ELSE With([b EXCEPT !._symbol_lut =
                               DictSet(@, RemoveSuffix(Strip(include[1]), <<":">>),
                                       AsmPosition(b.file, b._line_co, 0))],
                       LAMBDA c :
                      IF IncludePath(include[2]) \notin DOMAIN fs
                      THEN ApRaise(c, "AssertionError")
                      ELSE AddCounted(c, included))
        ELSE IF _is_symbol_definition(line)
        THEN IF Len(parts) > 1 /\ _is_instruction(Strip(parts[2]))
             THEN AddCounted(b, _count_instruction(b, Strip(parts[2])))
             ELSE b
        ELSE IgnoredLine(b, stripped))))))))

----------------------------------------------------------------------------
(* The run of AssemblyParser.parse and the two lookups on its result.      *)

\* The next bank file of the first loop of parse(), or on to the second.
RECURSIVE BeginPass2(_, _, _)
BeginPass2(a, fs, i) ==
    IF i > Len(a._prg_lut) THEN [a EXCEPT !.pc = "done", !.prg = 0]
    ELSE IF a._prg_lut[i].value \notin DOMAIN fs
    THEN ApRaise(a, "ValueError: Could not load")
    ELSE [OpenScan(a, fs, a._prg_lut[i].value)
             EXCEPT !.pc = "pass2", !.prg = i, !._current_byte_offset = 0]

BeginPass1(a, fs, i) ==
    IF i > Len(a._prg_lut) THEN BeginPass2(a, fs, 1)
    ELSE IF a._prg_lut[i].value \notin DOMAIN fs
    THEN ApRaise(a, "ValueError: Could not load")
    ELSE [OpenScan(a, fs, a._prg_lut[i].value) EXCEPT !.pc = "pass1", !.prg = i]

\* AssemblyParser.closest_pos_for_byte: the keys are visited in the order
\* of their insertion.
RECURSIVE ClosestFrom(_, _, _, _)
ClosestFrom(keys, i, position_before_this, byte_offset) ==
    IF i > Len(keys)
    THEN Raised(IF keys = <<>> THEN "IndexError" ELSE "ValueError: larger than last")
    ELSE IF keys[i] = byte_offset THEN Returned(keys[i])
    ELSE IF keys[i] > byte_offset THEN Returned(position_before_this)
    ELSE ClosestFrom(keys, i + 1, keys[i], byte_offset)
closest_pos_for_byte(a, byte_offset) ==
    ClosestFrom(OrderedKeys(a._bytes_to_lines), 1, 0, byte_offset)

\* ord() of a capital letter.
ord(c) == 64 + IndexIn(UpperCase, c)

IsByte(x) == x \in 0..255

\* A shift that falls one bit short.
ShiftedShort(x, n) == x * 2^(n - 1)

\* x << n
ShiftLeft(x, n) == x * 2^n

\* AssemblyParser.ines_header: a bytearray of BASE_OFFSET zero bytes with
\* the first seven set; a value that is no byte raises ValueError.
ines_header(a) ==
    With([i \in 1..3 |-> ord(<<"N", "E", "S">>[i])], LAMBDA magic :
    With(ShiftLeft(a._ines_mapper, 4) + a._ines_mirror, LAMBDA byte6 :
    With(         [i \in 1..BASE_OFFSET |->
                      IF i <= 3 THEN magic[i]
                      ELSE IF i = 4 THEN 26
                      ELSE IF i = 5 THEN a._prg_count
                      ELSE IF i = 6 THEN a._chr_count
                      ELSE IF i = 7 THEN byte6
                      ELSE 0], LAMBDA header :
        IF IsByte(a._prg_count) /\ IsByte(a._chr_count) /\ IsByte(byte6)
        THEN Returned(header)
        ELSE Raised("ValueError"))))

\* parse() from where the parser stands: _parse_smb3_asm opens the entry
\* file and scans it line by line; when it returns, parse() sets the offset
\* after the header and runs pass 1 and then pass 2 over each bank file.
ParseStep(a, fs) ==
    IF a.pc = "new"
    THEN IF smb3_asm_file \notin DOMAIN fs
         THEN ApRaise(a, "ValueError: Could not load")
         ELSE [OpenScan(a, fs, smb3_asm_file) EXCEPT !.pc = "entry", !.ram_address = 0]
    ELSE IF a.pc = "entry"
    THEN IF a.lines # <<>> THEN EntryLine(a, fs)
         ELSE IF Failed(AssertLineCount(a)) THEN AssertLineCount(a)
         ELSE BeginPass1([a EXCEPT !._current_byte_offset = 16], fs, 1)
    ELSE IF a.pc = "pass1"
    THEN IF a.lines # <<>> THEN Pass1Line(a, fs)
         ELSE IF Failed(AssertLineCount(a)) THEN AssertLineCount(a)
         ELSE BeginPass1(a, fs, a.prg + 1)
    ELSE IF a.pc = "pass2"
    THEN IF a.lines # <<>> THEN Pass2Line(a, fs)
         ELSE IF Failed(AssertLineCount(a)) THEN AssertLineCount(a)
         ELSE BeginPass2([a EXCEPT !._current_prg_offset = @ + PRG_BANK_SIZE],
                         fs, a.prg + 1)
    ELSE a

Parsing(a) == a.pc \notin {"done", "error"}

\* The parser states a run of parse() goes through, from a set of
\* <<parser, files>> pairs on.
RECURSIVE ParseReach(_, _)
ParseReach(frontier, seen) ==
    IF frontier \subseteq seen THEN seen
    ELSE ParseReach({<<ParseStep(x[1], x[2]), x[2]>> :
                        x \in {y \in frontier \ seen : Parsing(y[1])}},
                    seen \cup frontier)

----------------------------------------------------------------------------
(* Projects for the parser: an entry file with one bank, and the bank file. *)

prg000_asm == <<"p", "r", "g", "0", "0", "0", ".", "a", "s", "m">>
inc_asm == <<"i", "n", "c", ".", "a", "s", "m">>

\* The end of an entry file with a bank: the definition of bank 0.
BankLines == << <<".", "b", "a", "n", "k", " ", "0">>, <<".", "o", "r", "g", " ", "$", "C",
        "0", "0", "0">>, <<".", "i", "n", "c", "l", "u", "d", "e", " ", "\"", "p", "r", "g",
        "0", "0", "0", ".", "a", "s", "m", "\"">> >>

\* What the entry file holds before the bank.
EntryHeads == { <<>>, << <<"A", " ", "=", " ", "1">>, <<"R", "a", "m", ":", " ", ".", "d", "s",
        " ", "1">> >> }

\* The lines a bank file is put together from: the lines in front ...
ContextLines == { <<"A", " ", "=", " ", "1">>, <<"F", "o", "o", ":">>, <<"N", "O", "P">> }

\* ... and the last line of the file.
ProgramLines ==
    { <<"A", " ", "=", " ", "1">>, <<"A", " ", "=", " ", "2">>, <<"B", " ", "=", " ", "A">>,
        <<"F", "o", "o", ":">>,
      <<"o", "r", "g", " ", "$", "D", "8", "0", "0">>, <<"o", "r", "g", " ", "$", "C", "0",
        "0", "0">>, <<"f", "o", "o", " ", "b", "a", "r">>, <<"o", "r", "g", " ", "$", "D", "8",
        "0", "0", " ", ";", " ", "k", "e", "p", "t">>,
      <<".", "b", "y", "t", "e", " ", "1">>, <<".", "b", "y", "t", "e", " ", "1", ",", " ",
        "2">>, <<".", "b", "y", "t", "e", " ", "\"", "A", "B", "\"">>, <<".", "w", "o", "r",
        "d", " ", "\"", "A", "B", "\"">>, <<".", "d", "b", " ", "1">>, <<".", "d", "w", " ", "1">>,
      <<"N", "O", "P">>, <<"A", "S", "L", " ", "A">>, <<"B", "N", "E", " ", "F", "o", "o">>,
        <<"J", "M", "P", " ", "F", "o", "o">>, <<"J", "M", "P", " ", "(", "F", "o", "o", ")">>,
        <<"L", "D", "A", " ", "#", "1">>, <<"L", "D", "A", " ", "$", "1", "0">>,
      <<"L", "D", "A", " ", "$", "0", "1", "0", "0">>, <<"L", "D", "A", " ", "R", "a", "m">>,
        <<"L", "D", "A", " ", "F", "o", "o">>, <<"L", "D", "A", " ", "B", "a", "r">>, <<"L",
        "D", "A", " ", "F", "o", "o", "+", "1">>, <<"L", "D", "A", " ", "A">> }

\* Bank files with a macro: its definition, then a line that invokes it.
MacroPrograms ==
    { << <<"M", " ", ".", "m", "a", "c", "r", "o">>, <<"N", "O", "P">>, <<"L", "D", "A", " ",
        "#", "\\", "1">>, <<".", "e", "n", "d", "m">>, <<"M", " ", "1">> >>,
      << <<"M", " ", ".", "m", "a", "c", "r", "o">>, <<"L", "\\", "1", ":">>, <<"N", "O",
        "P">>, <<".", "e", "n", "d", "m">>, <<"M", " ", "1">> >>,
      << <<"M", " ", ".", "m", "a", "c", "r", "o">>, <<".", "b", "y", "t", "e", " ", "\"", "A",
        "B", "\"">>, <<".", "e", "n", "d", "m">>, <<"M">> >>,
      << <<"M", " ", ".", "m", "a", "c", "r", "o">>, <<".", "b", "y", "t", "e", " ", "\\",
        "1">>, <<".", "e", "n", "d", "m">>, <<"M", " ", "1">> >>,
      << <<"M", " ", ".", "m", "a", "c", "r", "o">>, <<"N", "O", "P">>, <<".", "e", "n", "d",
        "m">>, <<"N", " ", ".", "m", "a", "c", "r", "o">>, <<"M">>, <<"A", "S", "L", " ",
        "A">>, <<".", "e", "n", "d", "m">>, <<"N">> >>,
      << <<".", "i", "n", "c", "l", "u", "d", "e", " ", "\"", "i", "n", "c", "\"">>, <<"N",
        "O", "P">> >> }

\* Bank files in which two lines begin at one byte offset, or a line begins
\* below the offset of the line before it: a text of no bytes, the line
\* "org $D800" twice, a quoted text that is one quotation mark, and a macro
\* whose first line has no bytes.
OffsetPrograms ==
    { << <<".", "b", "y", "t", "e", " ", "\"", "\"">>, <<"N", "O", "P">> >>,
      << <<"N", "O", "P">>, <<"o", "r", "g", " ", "$", "D", "8", "0", "0">>, <<"N", "O", "P">>, <<"o", "r", "g", " ", "$", "D", "8", "0", "0">>, <<"N", "O", "P">> >>,
      << <<"L", "D", "A", " ", "#", "1">>, <<".", "b", "y", "t", "e", " ", "\"">>, <<"N", "O", "P">> >>,
      << <<"o", "r", "g", " ", "$", "D", "8", "0", "0">>, <<"L", "D", "A", " ", "#", "1">>, <<"N", "O", "P">>, <<"o", "r", "g", " ", "$", "D", "8", "0", "0">>, <<"N", "O", "P">>, <<"N", "O", "P">> >>,
      << <<"M", " ", ".", "m", "a", "c", "r", "o">>, <<".", "b", "y", "t", "e", " ", "\"", "\"">>, <<"N", "O", "P">>, <<".", "e", "n", "d", "m">>, <<"M">>, <<"N", "O", "P">> >> }

MaxPrgLines == 2

Programs ==
    MacroPrograms \cup OffsetPrograms \cup {<<>>} \cup
    UNION {{context \o <<line>> : context \in [1..n -> ContextLines],
                                  line \in ProgramLines} : n \in 0..(MaxPrgLines - 1)}

IncludedLines == << <<".", "b", "y", "t", "e", " ", "\"", "A", "B", "C", "\"">> >>

ProjectFiles ==
    {[p \in {smb3_asm_file, prg000_asm, inc_asm} |->
         IF p = smb3_asm_file THEN head \o BankLines
         ELSE IF p = prg000_asm THEN program
         ELSE IncludedLines] : head \in EntryHeads, program \in Programs}

\* The values of the header directives.
CountValues == {0, 255, 256}
MapperValues == {0, 5, 86, 255, 256}
MirrorValues == {0, 6, 15, 22}

InesLine(directive, value) == directive \o << " " >> \o str(value)

\* The entry file of a project without a bank: the four header directives.
HeaderFile(prg_count, chr_count, mapper, mirror) ==
    [p \in {smb3_asm_file} |->
        << InesLine(<<".", "i", "n", "e", "s", "p", "r", "g">>, prg_count),
           InesLine(<<".", "i", "n", "e", "s", "c", "h", "r">>, chr_count),
           InesLine(<<".", "i", "n", "e", "s", "m", "a", "p">>, mapper),
           InesLine(<<".", "i", "n", "e", "s", "m", "i", "r">>, mirror) >>]

HeaderFiles ==
    {HeaderFile(prg_count, chr_count, mapper, mirror) :
        prg_count \in CountValues, chr_count \in CountValues,
        mapper \in MapperValues, mirror \in MirrorValues}

\* ParseStep, tabulated once over the states the projects lead to.
ParserStates ==
    ParseReach({<<NewAssemblyParser, fs>> : fs \in ProjectFiles \cup HeaderFiles}, {})

ParseStepOf == [x \in ParserStates |-> ParseStep(x[1], x[2])]

\* The first call of parse(): _parse_smb3_asm opens the entry file.
ApParse ==
    /\ ap.pc = "new"
    /\ ap' = ParseStepOf[<<ap, disk>>]
    /\ UNCHANGED <<indexVars, navVars, fp, ret>>

\* One iteration of the loop of _parse_smb3_asm.
ApEntryStep ==
    /\ ap.pc = "entry" /\ ap.lines # <<>>
    /\ ap' = ParseStepOf[<<ap, disk>>]
    /\ UNCHANGED <<indexVars, navVars, fp, ret>>

\* _parse_smb3_asm returns; parse() sets the offset after the header and
\* starts pass 1 of the first bank file.
ApEntryReturn ==
    /\ ap.pc = "entry" /\ ap.lines = <<>>
    /\ ap' = ParseStepOf[<<ap, disk>>]
    /\ UNCHANGED <<indexVars, navVars, fp, ret>>

\* One iteration of the loop of _prg_pass_1.
ApPass1Step ==
    /\ ap.pc = "pass1" /\ ap.lines # <<>>
    /\ ap' = ParseStepOf[<<ap, disk>>]
    /\ UNCHANGED <<indexVars, navVars, fp, ret>>

\* _prg_pass_1 returns: on to the next bank file, or to pass 2.
ApPass1Return ==
    /\ ap.pc = "pass1" /\ ap.lines = <<>>
    /\ ap' = ParseStepOf[<<ap, disk>>]
    /\ UNCHANGED <<indexVars, navVars, fp, ret>>

\* One iteration of the loop of _prg_pass_2.
ApPass2Step ==
    /\ ap.pc = "pass2" /\ ap.lines # <<>>
    /\ ap' = ParseStepOf[<<ap, disk>>]
    /\ UNCHANGED <<indexVars, navVars, fp, ret>>

\* _prg_pass_2 returns: on to the next bank file, or parse() is done.
ApPass2Return ==
    /\ ap.pc = "pass2" /\ ap.lines = <<>>
    /\ ap' = ParseStepOf[<<ap, disk>>]
    /\ UNCHANGED <<indexVars, navVars, fp, ret>>

\* The byte offsets a caller asks for: around the recorded ones.
AskedOffsets ==
    {0} \cup UNION {{k - 1, k, k + 1} \cap Nat :
                       k \in Range(OrderedKeys(ap._bytes_to_lines))}

\* AssemblyByteArray.__getitem__ asks for the position of a byte.
ClosestPosForByte(byte_offset) ==
    /\ ap.pc = "done"
    /\ ret' = [call |-> "closest_pos_for_byte", arg |-> byte_offset,
               result |-> closest_pos_for_byte(ap, byte_offset)]
    /\ UNCHANGED <<indexVars, navVars, ap, fp>>

\* The fields of a parser that its header is made from.
HeaderFields(a) ==
    [mapper |-> a._ines_mapper, mirror |-> a._ines_mirror,
     prg_count |-> a._prg_count, chr_count |-> a._chr_count]

\* A caller reads the header of the parser.
InesHeader ==
    /\ ap.pc \in {"done", "fields set"}
    /\ ret' = [call |-> "ines_header", arg |-> HeaderFields(ap),
               result |-> ines_header(ap)]
    /\ UNCHANGED <<indexVars, navVars, ap, fp>>

\* The largest mapper and mirroring value a test sets.
MaxField == 16

\* test_ines_header: the mapper and the mirroring of a new parser are set;
\* the parser is never parsed, only its header is read.
TestSetsFields(mapper, mirror) ==
    /\ ap.pc = "new"
    /\ ap' = [ap EXCEPT !._ines_mapper = mapper, !._ines_mirror = mirror,
                        !.pc = "fields set"]
    /\ UNCHANGED <<indexVars, navVars, fp, ret>>

InitParser(files) ==
    /\ root_path = AbsRoot
    /\ disk \in files
    /\ unreadable = {}
    /\ buffers = EmptyDict
    /\ edits = 0
    /\ InitFinder
    /\ ap = NewAssemblyParser /\ fp = NoObject /\ ret = NoObject
    /\ _position_stack = NewTextPositionStack

InitResolver == InitParser(ProjectFiles)

NextResolver ==
    \/ ApParse
    \/ ApEntryStep
    \/ ApEntryReturn
    \/ ApPass1Step
    \/ ApPass1Return
    \/ ApPass2Step
    \/ ApPass2Return
    \/ \E byte_offset \in AskedOffsets : ClosestPosForByte(byte_offset)

SpecResolver == InitResolver /\ [][NextResolver]_vars

InitHeader == InitParser(HeaderFiles)

NextHeader ==
    \/ ApParse
    \/ ApEntryStep
    \/ ApEntryReturn
    \/ InesHeader
    \/ \E mapper \in 0..MaxField, mirror \in 0..MaxField : TestSetsFields(mapper, mirror)

SpecHeader == InitHeader /\ [][NextHeader]_vars

----------------------------------------------------------------------------
(* Claims about the byte-layout resolver.                                  *)

\* A line `NAME = value` that no classifier in front of the constant
\* assignment takes: no directive, no label, no comment, several words.
IsPlainAssignment(line) ==
    /\ ~Contains(line, <<".">>) /\ ~Contains(line, <<":">>) /\ ~Contains(line, <<";">>)
    /\ Len(Words(line)) > 1
    /\ _is_const_assignment(line)

AssignedName(line) == Strip(Split(line, <<"=">>)[1])

\* C11: in the entry-file scan and in pass 1 over a bank file, a constant
\* assignment NAME = value aborts the run with a redefinition error exactly
\* when NAME is already present in the constant table.
C11_RedefinitionIffNamePresent ==
    [][((ApEntryStep \/ ApPass1Step) /\ IsPlainAssignment(ap.lines[1]))
          => ((ap'.error = "ValueError: Redefinition")
                 <=> AssignedName(ap.lines[1]) \in DOMAIN ap._const_lut)]_vars


\* The line of the coming step, as the passes over a bank file read it.
ReadLine == Strip(Replace(ap.lines[1], <<"\t">>, <<" ">>))

\* The line matches one of the line classifications of pass 2.
Classified2(a, line) ==
    \/ _is_empty_line(line) \/ _is_only_comment(line)
    \/ _is_byte(line) \/ _is_word(line)
    \/ _is_ignored_directive(line) \/ _is_func_directive(line)
    \/ _is_instruction(line)
    \/ macro_on_line(line) # <<>>
    \/ _is_macro_invoke(a, line) # <<>>
    \/ _is_func_call_raises(a, line) \/ _is_func_call(a, line)
    \/ _is_const_assignment(line)
    \/ _is_include_directive(line)
    \/ _is_symbol_definition(line)

\* C12: in pass 2 (the byte-accounting pass) a line that matches no line
\* classification aborts the run with an error, except the line `org $D800`
\* (read without its comment): after it the run goes on and the byte offset
\* in the bank is 0xD800 mod 0x2000 = 6144.
C12_UnclassifiedLineAborts ==
    [][(ApPass2Step /\ ~Classified2(ap, ReadLine))
          => IF data_source_strip_comment(ReadLine) = <<"o", "r", "g", " ", "$", "D", "8", "0",
        "0">>
             THEN /\ ap'.pc = "pass2"
                  /\ ap'._current_byte_offset = 6144
                  /\ ap'.lines = Tail(ap.lines)
             ELSE ap'.pc = "error" /\ ap'.error # ""]_vars

\* Pass 2 has gone over `org $D800` as the last line of the bank file.
C12_Witness ==
    /\ ap.pc = "pass2" /\ ap.lines = <<>>
    /\ ap._current_byte_offset = 6144
    /\ disk[ap.file] # <<>>
    /\ data_source_strip_comment(disk[ap.file][Len(disk[ap.file])]) = <<"o", "r", "g", " ",
        "$", "D", "8", "0", "0">>


\* The operand of a data line: what follows the directive, without comment.
DataOperand(line) ==
    With(data_source_strip_comment(line), LAMBDA stripped :
        Strip(SubSeq(stripped, Find(stripped, <<" ">>) + 1, Len(stripped))))

\* The elements of the operand of a data line: the characters of a quoted
\* string, else the elements the commas separate (the children of the
\* Listing node, 1 for a single element).
DataElements(line) ==
    With(DataOperand(line), LAMBDA definition :
        IF Len(definition) >= 2 /\ definition[1] = "\""
                                /\ definition[Len(definition)] = "\""
        THEN Len(definition) - 2
        ELSE Len(Split(definition, <<",">>)))

IsByteLine(line) == StartsWith(line, <<".", "b", "y", "t", "e", " ">>) \/ StartsWith(line,
        <<".", "d", "b", " ">>)
IsWordLine(line) == StartsWith(line, <<".", "w", "o", "r", "d", " ">>) \/ StartsWith(line,
        <<".", "d", "w", " ">>)

\* C13: in pass 2 a `.byte`/`.db` line contributes 1 x its element count
\* bytes and a `.word`/`.dw` line 2 x its element count bytes; so a file of
\* N `.byte` lines with one literal each contributes N bytes.
C13_DataLineBytes ==
    [][(ApPass2Step /\ (IsByteLine(ReadLine) \/ IsWordLine(ReadLine)))
          => /\ ap'.pc # "error"
             /\ ap'._current_byte_offset
                   = ap._current_byte_offset
                     + (IF IsByteLine(ReadLine) THEN 1 ELSE 2) * DataElements(ReadLine)]_vars


\* A character a name is written with.
IsNameChar(c) == c \in Range(UpperCase) \cup Range(LowerCase) \cup Range(Digits) \cup {"_"}

\* The text names `name`: it occurs in it as a whole word.
Names(text, name) ==
    \E i \in 1..(Len(text) - Len(name) + 1) :
        /\ SubSeq(text, i, i + Len(name) - 1) = name
        /\ (i = 1 \/ ~IsNameChar(text[i - 1]))
        /\ (i + Len(name) > Len(text) \/ ~IsNameChar(text[i + Len(name)]))

\* The bytes of an instruction line by the addressing rules.
InstructionBytes(a, line) ==
    With(SplitOnce(data_source_strip_comment(line), <<" ">>), LAMBDA split :
    With(IF Len(split) > 1 THEN Strip(split[2]) ELSE <<>>, LAMBDA operand :
        IF operand = <<>> THEN 1
        ELSE IF Upper(split[1]) \in RELATIVE_ADDRESSING_INSTRUCTIONS THEN 2
        ELSE IF Upper(split[1]) = <<"J", "M", "P">> THEN 3
        ELSE IF operand[1] \in {"#", "<", "["} THEN 2
        ELSE IF \E name \in DOMAIN a._ram_lut \cup DOMAIN a._symbol_lut
                                \cup DOMAIN a._const_lut : Names(operand, name)
        THEN 3
        ELSE IF _parse_number(operand).ok /\ _parse_number(operand).v > 255 THEN 3
        ELSE 2))

\* Pass 2 reads the line as an instruction.
IsInstructionLine(line) ==
    /\ ~(_is_empty_line(line) \/ _is_only_comment(line))
    /\ ~(_is_byte(line) \/ _is_word(line))
    /\ ~(_is_ignored_directive(line) \/ _is_func_directive(line))
    /\ _is_instruction(line)

\* C14: pass 2 counts for an instruction line 1 byte without operand,
\* else 2 for a relative branch, else 3 for JMP, else 2 for an operand that
\* starts with `#`, `<` or `[`, else 3 when the operand names a known RAM
\* variable, symbol or constant or its value is above 255, else 2; the
\* count is always 1, 2 or 3.
C14_InstructionBytes ==
    [][(ApPass2Step /\ IsInstructionLine(ReadLine))
          => /\ ap'.pc # "error"
             /\ ap'._current_byte_offset
                   = ap._current_byte_offset + InstructionBytes(ap, ReadLine)]_vars


\* Pass 2 reads the line as the invocation of a macro.
IsMacroInvocation(a, line) ==
    /\ ~(_is_empty_line(line) \/ _is_only_comment(line))
    /\ ~(_is_byte(line) \/ _is_word(line))
    /\ ~(_is_ignored_directive(line) \/ _is_func_directive(line))
    /\ ~_is_instruction(line)
    /\ macro_on_line(line) = <<>>
    /\ _is_macro_invoke(a, line) # <<>>

\* The body of the macro a line invokes, after positional substitution:
\* the expanded lines without the two delimiter lines.
MacroBody(a, line) ==
    With(_is_macro_invoke(a, line), LAMBDA macro_name :
    With(expand(a._macro_lut[macro_name],
                Split(Replace(line, macro_name \o <<" ">>, <<>>), <<",">>)),
         LAMBDA expanded : SubSeq(expanded, 2, Len(expanded) - 1)))

\* The bytes of a line by the line classifications: an invocation is the sum
\* of its body, a data line and an instruction count as above, every other
\* line (a label, a directive) is no byte.
RECURSIVE LineBytes(_, _, _)
RECURSIVE BodyBytes(_, _, _)
BodyBytes(a, body, depth) ==
    IF body = <<>> THEN 0
    ELSE LineBytes(a, body[1], depth) + BodyBytes(a, Tail(body), depth)
LineBytes(a, text, depth) ==
    With(Strip(text), LAMBDA line :
        IF depth > RecursionLimit THEN 0
        ELSE IF IsByteLine(line) \/ IsWordLine(line)
        THEN (IF IsByteLine(line) THEN 1 ELSE 2) * DataElements(line)
        ELSE IF IsInstructionLine(line) THEN InstructionBytes(a, line)
        ELSE IF IsMacroInvocation(a, line)
        THEN BodyBytes(a, MacroBody(a, line), depth + 1)
        ELSE 0)

\* C15: in pass 2 a macro invocation line contributes the sum of the
\* contributions of the lines of the macro body after substitution; a body
\* line that invokes a macro contributes the sum of its own expansion.
C15_MacroBytes ==
    [][(ApPass2Step /\ IsMacroInvocation(ap, ReadLine))
          => /\ ap'.pc # "error"
             /\ ap'._current_byte_offset
                   = ap._current_byte_offset + LineBytes(ap, ReadLine, 1)]_vars


\* The offsets recorded in the byte-offset map.
RecordedOffsets == Range(OrderedKeys(ap._bytes_to_lines))

\* C16: for a byte offset N that is not smaller than the smallest recorded
\* offset, closest_pos_for_byte returns the largest recorded offset that is
\* less than or equal to N.
C16_ClosestIsLargestBelow ==
    (/\ ret # NoObject
     /\ ret.call = "closest_pos_for_byte"
     /\ \E k \in RecordedOffsets : k <= ret.arg)
        => /\ ret.result.ok
           /\ ret.result.v \in RecordedOffsets
           /\ ret.result.v <= ret.arg
           /\ \A k \in RecordedOffsets : k <= ret.arg => k <= ret.result.v


----------------------------------------------------------------------------
(* Claims about the synthesized header.                                    *)

\* x | y on natural numbers, bit by bit.
RECURSIVE BitOr(_, _)
BitOr(x, y) ==
    IF x = 0 THEN y
    ELSE IF y = 0 THEN x
    ELSE (IF x % 2 = 1 \/ y % 2 = 1 THEN 1 ELSE 0) + 2 * BitOr(x \div 2, y \div 2)

\* C17: for a mapper and a mirroring in 0..15 and bank counts in 0..255 the
\* header is 16 bytes: 'N', 'E', 'S', 0x1A, the PRG bank count, the CHR bank
\* count, (mapper << 4) | mirroring, and nine zero bytes.
C17_HeaderBytes ==
    (/\ ret # NoObject
     /\ ret.call = "ines_header"
     /\ ret.arg.mapper \in 0..15 /\ ret.arg.mirror \in 0..15
     /\ ret.arg.prg_count \in 0..255 /\ ret.arg.chr_count \in 0..255)
        => /\ ret.result.ok
           /\ ret.result.v = << 78, 69, 83, 26, ret.arg.prg_count, ret.arg.chr_count,
                                BitOr(ret.arg.mapper * 16, ret.arg.mirror),
                                0, 0, 0, 0, 0, 0, 0, 0, 0 >>

\* The header of a parser with mapper 5 and mirroring 6 has been read:
\* byte 6 is 0x56 and byte 7 is 0.
C17_Witness ==
    /\ ret # NoObject
    /\ ret.call = "ines_header"
    /\ ret.arg.mapper = 5 /\ ret.arg.mirror = 6
    /\ ret.result.ok
    /\ ret.result.v[7] = 86 /\ ret.result.v[8] = 0


\* FormulaParser._depth_first_tree_walk: the leaves below the root, each
\* taken from the front of a queue that its own leaves are appended to.
RECURSIVE TreeWalk(_, _)
TreeWalk(tree, leaves) ==
    IF leaves = <<>> THEN <<>>
    ELSE <<leaves[1]>> \o TreeWalk(tree, Tail(leaves) \o tree[leaves[1]].leaves)

_depth_first_tree_walk(f) == TreeWalk(f.tree, f.tree[1].leaves)

\* FormulaParser._has_type
_has_type(f, leaf_type) ==
    \E n \in Range(_depth_first_tree_walk(f)) : f.tree[n].leaf_type = leaf_type

\* FormulaParser.has_symbols
has_symbols(f) == _has_type(f, "SYMBOL")

\* FormulaParser.has_macro_params
has_macro_params(f) == _has_type(f, "MACRO_PARAM")

\* The leaf fill_in_symbols makes of a symbol that is a key of the map.
FilledValue(leaf, symbols) == [leaf EXCEPT !.value = symbols[leaf.value]]
FilledLeaf(leaf, symbols) ==
    [leaf EXCEPT !.leaf_type = "NUMBER", !.value = symbols[leaf.value]]

\* FormulaParser.fill_in_symbols; symbols is a dict from names to texts.
fill_in_symbols(f, symbols) ==
    With(Range(_depth_first_tree_walk(f)), LAMBDA walked :
        [f EXCEPT !.tree =
            [n \in DOMAIN f.tree |->
                IF /\ n \in walked
                   /\ f.tree[n].leaf_type = "SYMBOL"
                   /\ f.tree[n].value \in DOMAIN symbols
                THEN FilledLeaf(f.tree[n], symbols)
                ELSE f.tree[n]]])

\* str.removeprefix
removeprefix(s, prefix) ==
    IF StartsWith(s, prefix) THEN SubSeq(s, Len(prefix) + 1, Len(s)) ELSE s

\* str.count of one character
CountChar(s, c) == Cardinality({i \in 1..Len(s) : s[i] = c})

\* data_source.byte_length_of_number_string; a decimal text is added to 1
\* as the text it is, which int.__add__ and str.__radd__ both refuse.
byte_length_of_number_string(value) ==
    With(removeprefix(value, <<"-">>), LAMBDA v :
        IF StartsWith(v, <<"%">>) THEN Returned(Len(removeprefix(v, <<"%">>)) \div 8)
        ELSE IF StartsWith(v, <<"$">>) THEN Returned(Len(removeprefix(v, <<"$">>)) \div 2)
        ELSE IF StartsWith(v, <<"'">>)
            THEN IF CountChar(v, "'") = 2 THEN Returned(Len(v) - 2)
                 ELSE Raised("AssertionError")
        ELSE IF IsNumeric(v)
            THEN Raised("TypeError: unsupported operand type(s) for +: 'int' and 'str'")
        ELSE Raised("ValueError: Unexpected"))

\* The first exception among the results, or the values of all of them.
FirstRaised(results) ==
    results[CHOOSE i \in 1..Len(results) :
                /\ ~results[i].ok
                /\ \A j \in 1..(i - 1) : results[j].ok]

RECURSIVE SumOf(_)
SumOf(results) ==
    IF results = <<>> THEN 0 ELSE results[1].v + SumOf(Tail(results))

MaxOf(results) ==
    CHOOSE m \in {results[i].v : i \in 1..Len(results)} :
        \A i \in 1..Len(results) : results[i].v <= m

\* FormulaParser._count_leaf_byte_size of leaf n of the tree; max() and
\* sum() take the sizes of the leaves in order, so that the first exception
\* is the one that leaves them.
RECURSIVE _count_leaf_byte_size(_, _)
_count_leaf_byte_size(tree, n) ==
    With(tree[n].leaves, LAMBDA leaves :
        IF tree[n].leaf_type \in {"ROOT", "FUNCTION_NAME", "PARENS", "FUNCTION_PARAMS"}
            THEN IF Len(leaves) # 1 THEN Raised("AssertionError")
                 ELSE _count_leaf_byte_size(tree, leaves[1])
        ELSE IF tree[n].leaf_type = "SYMBOL"
            THEN Raised("ValueError: Couldn't determine byte size of Symbol")
        ELSE IF tree[n].leaf_type = "NUMBER"
            THEN IF leaves # <<>> THEN Raised("AssertionError")
                 ELSE byte_length_of_number_string(tree[n].value)
        ELSE IF tree[n].leaf_type \in {"FORMULA", "LISTING"}
            THEN IF Len(leaves) < 2 THEN Raised("AssertionError")
                 ELSE With([i \in 1..Len(leaves) |-> _count_leaf_byte_size(tree, leaves[i])],
                           LAMBDA sizes :
                               IF \E i \in 1..Len(sizes) : ~sizes[i].ok THEN FirstRaised(sizes)
                               ELSE IF tree[n].leaf_type = "FORMULA"
                                   THEN Returned(MaxOf(sizes))
                               ELSE Returned(SumOf(sizes)))
        ELSE IF tree[n].leaf_type = "OPERATOR"
            THEN IF leaves # <<>> THEN Raised("AssertionError") ELSE Returned(0)
        ELSE Raised("ValueError: Couldn't determine byte size of Macro Param"))

----------------------------------------------------------------------------
(* The FormulaParser at work: the expressions it is given, and parse() one *)
(* iteration of its loop at a time.                                         *)

\* str.join
RECURSIVE JoinedBy(_, _)
JoinedBy(items, sep) ==
    IF items = <<>> THEN <<>>
    ELSE IF Len(items) = 1 THEN items[1]
    ELSE items[1] \o sep \o JoinedBy(Tail(items), sep)

\* The most elements of a listing and the most operands of a chain.
MaxItems == 3

NumberLiterals == { <<"1">>, <<"$", "0", "F">>, <<"%", "1", "0">> }
Comments == { <<>>, <<" ", ";", " ", "c">> }

\* Listings of numeric literals.
NumberListings ==
    UNION {{JoinedBy(items, sep) \o comment :
               items \in [1..k -> NumberLiterals], sep \in { <<",">>, <<",", " ">> },
               comment \in Comments} : k \in 2..MaxItems}

FunctionNames == { <<"F">>, <<"M", "L", "E", "N">> }
ArgumentSymbols == { <<"a">>, <<"b", "_", "E", "n", "d">> }

\* Calls of a function with two symbols.
FunctionCalls ==
    {name \o open \o arg1 \o sep \o arg2 \o close \o comment :
        name \in FunctionNames, arg1 \in ArgumentSymbols, arg2 \in ArgumentSymbols,
        open \in { <<"(">> }, sep \in { <<",">>, <<",", " ">> }, close \in { <<")">>, <<" ",
        ")">> },
        comment \in Comments}

Operands == { <<"A">>, <<"1">> }
ChainOperators == { <<"|">>, <<"+">> }

\* Chains of operands with one operator between two of them.
OperatorChains ==
    UNION {{JoinedBy([i \in 1..(2 * k - 1) |->
                         IF i % 2 = 1 THEN operands[(i + 1) \div 2]
                         ELSE operators[i \div 2]], space) :
               operands \in [1..k -> Operands],
               operators \in [1..(k - 1) -> ChainOperators],
               space \in { <<>>, <<" ">> }} : k \in 2..MaxItems}

\* A binary expression in parentheses, alone or with an operator and an
\* operand after it.
ParenOperators == { <<" ", "&", " ">>, <<"|">>, <<" ", "-", " ">> }
\* What follows the closing parenthesis: nothing, or an operator and an
\* operand, as text and as parts.
ParenRests ==
    { [text |-> <<>>, parts |-> <<>>],
      [text |-> <<" ", ">", ">", " ", "8">>, parts |-> << <<">", ">">>, <<"8">> >>],
      [text |-> <<"|", "1">>, parts |-> << <<"|">>, <<"1">> >>] }
ParenFormula(left, operator, right, rest) ==
    <<"(">> \o left \o operator \o right \o <<")">> \o rest.text
ParenFormulas ==
    {ParenFormula(left, operator, right, rest) :
        left \in Operands, right \in Operands, operator \in ParenOperators,
        rest \in ParenRests}

\* Signs at the start, after a comma, and after an operand, with the parts
\* and the leaf below the Root they are to give.
SignCases ==
    { [line |-> <<"-", "1">>, parts |-> << <<"-", "1">> >>, leaf_type |-> "NUMBER"],
      [line |-> <<"+", "1">>, parts |-> << <<"+", "1">> >>, leaf_type |-> "NUMBER"],
      [line |-> <<"-", "$", "0", "3", ",", " ", "$", "0", "0">>, parts |-> << <<"-", "$", "0", "3">>, <<"$", "0", "0">> >>, leaf_type |-> "LISTING"],
      [line |-> <<"$", "0", "0", ",", " ", "-", "$", "0", "3">>, parts |-> << <<"$", "0", "0">>, <<"-", "$", "0", "3">> >>, leaf_type |-> "LISTING"],
      [line |-> <<"1", ",", " ", "+", "1">>, parts |-> << <<"1">>, <<"+", "1">> >>, leaf_type |-> "LISTING"],
      [line |-> <<"A", "-", "1">>, parts |-> << <<"A">>, <<"-">>, <<"1">> >>, leaf_type |-> "FORMULA"],
      [line |-> <<"A", " ", "-", " ", "1">>, parts |-> << <<"A">>, <<"-">>, <<"1">> >>, leaf_type |-> "FORMULA"],
      [line |-> <<"(", "A", ")", " ", "-", " ", "1">>, parts |-> << <<"A">>, <<"-">>, <<"1">> >>, leaf_type |-> "FORMULA"],
      [line |-> <<"1", "+", "1">>, parts |-> << <<"1">>, <<"+">>, <<"1">> >>, leaf_type |-> "FORMULA"] }
SignLines == {case.line : case \in SignCases}

\* Macro parameters among literals and operators only, and among symbols.
MacroParamOnlyLines ==
    { <<"\\", "1">>, <<"\\", "9">>, <<"\\", "1", " ", ">", ">", " ", "8">>, <<"\\", "2", "|", "1">>, <<"\\", "1", ",", " ", "\\", "2">>, <<"\\", "1", "2">>, <<"\\", "1", "\\", "2">>, <<"(", "\\", "3", ")">>, <<"$", "0", "F", "|", "\\", "1">>,
      <<"\\", "4", " ", ";", " ", "A">> }
MacroParamLines ==
    MacroParamOnlyLines \cup { <<"A", "\\", "1">>, <<"\\", "1", "|", "A">>, <<"F", "(", "\\", "1", ",", " ", "1", ")">> }

\* Every text of up to MaxChars characters of the alphabet.
MaxChars == 2
Alphabet == {"A", "1", ",", "|", "(", ")", "\\"}
ShortLines == UNION {[1..n -> Alphabet] : n \in 0..MaxChars}

\* Listings that end in a comma, operators without an operand, operands
\* without an operator, parentheses that are not closed or not opened, a
\* lone sign, and comments.
RaggedLines ==
    { <<"A", ",", " ", "B", ",">>, <<"1", ",", " ", "2", ",">>, <<"A", "|", ",", "B">>, <<"A", " ", "|", " ", "|", " ", "B">>, <<"(", "A", "|", "B", ")", ",">>, <<"F", "(", "a", ",", ")">>, <<"1", " ", "2">>, <<"A", " ", "B">>, <<"(", "A", "|">>, <<"(", "(", "A", ")">>,
      <<"F", "(", "a">>, <<"F", "(", "a", ")", ")">>, <<"(", "A", ")", ")">>, <<"A", " ", ">", ">">>, <<"$", "0", "F", "0", "0">>, <<"2", "5", "5", ",", " ", "2", "5", "6">>, <<"-">>, <<" ", "-">>, <<"(", "-">>, <<"$">>,
      <<"A", ";">>, <<" ", "A", " ">>, <<";", "\\">> }

\* One operator between two symbols, with and without spaces around it.
BinaryExpressions ==
    {<<"A">> \o space \o operator \o space \o <<"B">> :
        operator \in Range(OPERATORS), space \in { <<>>, <<" ">> }}

\* Numerals with a character after them that is no digit of their base, and
\* the token each is to give: the prefix and the digits up to that character.
NumeralCases ==
    { [line |-> <<"$", "0", "F", "$", "1">>, token |-> <<"$", "0", "F">>],
      [line |-> <<"$", "0", "G">>, token |-> <<"$", "0">>],
      [line |-> <<"$", "a", "F", ",">>, token |-> <<"$", "a", "F">>],
      [line |-> <<"$", "1", " ", "2">>, token |-> <<"$", "1">>],
      [line |-> <<"1", "2", "A">>, token |-> <<"1", "2">>],
      [line |-> <<"1", "2", "$", "0">>, token |-> <<"1", "2">>],
      [line |-> <<"9", "|", "1">>, token |-> <<"9">>],
      [line |-> <<"%", "1", "0", "2">>, token |-> <<"%", "1", "0">>],
      [line |-> <<"%", "0", "1", ",">>, token |-> <<"%", "0", "1">>],
      [line |-> <<"%", "1", "A">>, token |-> <<"%", "1">>] }
NumeralLines == {case.line : case \in NumeralCases}

FormulaLines ==
    NumberListings \cup FunctionCalls \cup OperatorChains \cup ParenFormulas
        \cup SignLines \cup MacroParamLines \cup ShortLines \cup RaggedLines
        \cup BinaryExpressions \cup NumeralLines

\* A FormulaParser made for a line, before parse().
NewFormulaParser(line) == [pc |-> "parse", line |-> line, f |-> FormulaParser(line)]

\* parse() from where the parser stands: one iteration of its loop, or what
\* follows the loop.
FormulaStep(x) ==
    With(IF ParseLoops(x.f) THEN state_func(x.f) ELSE ParseEnd(x.f), LAMBDA g :
        [x EXCEPT !.f = g,
                  !.pc = IF g.error # "" THEN "error"
                         ELSE IF ParseLoops(x.f) THEN "parse" ELSE "done"])

\* FormulaStep, tabulated along the run of parse() over one line: each state
\* of the run with the state that follows it, up to the end of parse() or
\* to a state the run has been in before.
RECURSIVE FormulaRun(_, _)
FormulaRun(x, seen) ==
    IF x.pc # "parse" \/ x \in seen THEN <<>>
    ELSE With(FormulaStep(x), LAMBDA y : (x :> y) @@ FormulaRun(y, seen \cup {x}))

FormulaStepOf ==
    [line \in FormulaLines |-> FormulaRun(NewFormulaParser(line), {})] @@ <<>>

\* One iteration of the loop of parse(): the function of the state.
FpStateFunc ==
    /\ fp.pc = "parse" /\ ParseLoops(fp.f)
    /\ fp' = FormulaStepOf[fp.line][fp]
    /\ UNCHANGED <<indexVars, navVars, ap, ret>>

\* The loop of parse() is over: the open symbol or number is ended and the
\* state is checked.
FpReturn ==
    /\ fp.pc = "parse" /\ ~ParseLoops(fp.f)
    /\ fp' = FormulaStepOf[fp.line][fp]
    /\ UNCHANGED <<indexVars, navVars, ap, ret>>

\* The dicts fill_in_symbols is called with.
SymbolMaps ==
    { [name \in {} |-> <<>>],
      [name \in { <<"A">> } |-> <<"$", "0", "F">>],
      [name \in { <<"A">>, <<"B">> } |-> IF name = <<"A">> THEN <<"2", "5", "5">> ELSE <<"-", "$", "0", "1", "0", "0">>],
      [name \in { <<"a">>, <<"b", "_", "E", "n", "d">> } |-> IF name = <<"a">> THEN <<"%", "1", "0", "0", "0", "0", "0", "0", "0">> ELSE <<"'", "A", "B", "'">>] }

\* parse() has returned, and the tree may since have been filled in.
Parsed == fp.pc \in {"done", "filled"}

\* The property has_symbols is read.
HasSymbols ==
    /\ Parsed
    /\ ret' = [call |-> "has_symbols", arg |-> <<>>, result |-> Returned(has_symbols(fp.f))]
    /\ UNCHANGED <<indexVars, navVars, ap, fp>>

\* The property has_macro_params is read.
HasMacroParams ==
    /\ Parsed
    /\ ret' = [call |-> "has_macro_params", arg |-> <<>>,
               result |-> Returned(has_macro_params(fp.f))]
    /\ UNCHANGED <<indexVars, navVars, ap, fp>>

\* fill_in_symbols(symbols)
FillInSymbols(symbols) ==
    /\ Parsed
    /\ fp' = [fp EXCEPT !.pc = "filled", !.f = fill_in_symbols(fp.f, symbols)]
    /\ ret' = [call |-> "fill_in_symbols", arg |-> symbols, result |-> Returned(<<>>)]
    /\ UNCHANGED <<indexVars, navVars, ap>>

\* _count_leaf_byte_size(leaf) of the root or of a leaf below it
CountLeafByteSize(leaf) ==
    /\ Parsed
    /\ leaf \in {1} \cup Range(_depth_first_tree_walk(fp.f))
    /\ ret' = [call |-> "_count_leaf_byte_size", arg |-> leaf,
               result |-> _count_leaf_byte_size(fp.f.tree, leaf)]
    /\ UNCHANGED <<indexVars, navVars, ap, fp>>

InitFormula ==
    /\ root_path = AbsRoot
    /\ disk = EmptyDict
    /\ unreadable = {}
    /\ buffers = EmptyDict
    /\ edits = 0
    /\ InitFinder
    /\ ap = NewAssemblyParser /\ ret = NoObject
    /\ _position_stack = NewTextPositionStack
    /\ fp \in {NewFormulaParser(line) : line \in FormulaLines}

\* The most leaves of a tree of the lines.
MaxLeaves == 12

NextFormula ==
    \/ FpStateFunc
    \/ FpReturn
    \/ HasSymbols
    \/ HasMacroParams
    \/ \E symbols \in SymbolMaps : FillInSymbols(symbols)
    \/ \E leaf \in 1..MaxLeaves : CountLeafByteSize(leaf)

SpecFormula == InitFormula /\ [][NextFormula]_vars

\* parse() is one loop of one thread: once called it goes on until it
\* returns or raises.
SpecFormulaRuns == SpecFormula /\ WF_vars(FpStateFunc) /\ WF_vars(FpReturn)


----------------------------------------------------------------------------
(* Claims about the expression tokenizer.                                  *)

\* parse() of the line has ended, with a return or with an exception.
ParseEnded == fp # NoObject /\ fp.pc \in {"done", "error"}

\* The children of a leaf of the tree, as leaves.
Children(tree, n) == [i \in 1..Len(tree[n].leaves) |-> tree[tree[n].leaves[i]]]

\* The elements a listing is written with: the texts between the commas of
\* the line without its comment.
ListedTexts(line) ==
    With(Split(Split(line, <<";">>)[1], <<",">>), LAMBDA texts :
        [i \in 1..Len(texts) |-> Strip(texts[i])])

\* C18: for a line of k >= 2 numeric literals separated by commas, with any
\* whitespace and an optional comment, parse() yields the k literals as
\* parts, in their order, and a Root with one child: a Listing whose
\* children are the k Numbers.
C18_NumberListing ==
    (ParseEnded /\ fp.line \in NumberListings)
        => /\ fp.pc = "done"
           /\ fp.f.parts = ListedTexts(fp.line)
           /\ Len(fp.f.tree[1].leaves) = 1
           /\ Children(fp.f.tree, 1)[1].leaf_type = "LISTING"
           /\ Len(Children(fp.f.tree, 1)[1].leaves) = Len(ListedTexts(fp.line))
           /\ \A i \in 1..Len(ListedTexts(fp.line)) :
                  /\ Children(fp.f.tree, fp.f.tree[1].leaves[1])[i].leaf_type = "NUMBER"
                  /\ Children(fp.f.tree, fp.f.tree[1].leaves[1])[i].value
                         = ListedTexts(fp.line)[i]
                  /\ Children(fp.f.tree, fp.f.tree[1].leaves[1])[i].leaves = <<>>


\* The name and the arguments a call is written with.
CalledName(line) == Strip(Split(line, <<"(">>)[1])
CallArguments(line) == ListedTexts(Split(Split(line, <<"(">>)[2], <<")">>)[1])

\* The only child of a leaf of the tree of fp (the leaf itself, when it has
\* not exactly one child).
OnlyChild(n) == IF Len(fp.f.tree[n].leaves) = 1 THEN fp.f.tree[n].leaves[1] ELSE n

\* C19: for a call NAME(arg1, arg2) with symbols as arguments, parse()
\* yields a Root with one child, the FunctionName NAME, whose only child is
\* a FunctionParams, whose only child is a Listing with the argument Symbols
\* in order; parts is NAME, arg1, arg2; and from the closing ")" on the
\* current leaf is the parent of the FunctionName.
C19_FunctionCall ==
    (fp # NoObject /\ fp.line \in FunctionCalls)
        => /\ fp.pc # "error"
           /\ (")" \notin Range(fp.f._line)
                  => fp.f._current_leaf = fp.f.tree[OnlyChild(1)].parent)
           /\ fp.pc = "done"
                  => /\ fp.f.parts = <<CalledName(fp.line)>> \o CallArguments(fp.line)
                     /\ Len(fp.f.tree[1].leaves) = 1
                     /\ fp.f.tree[OnlyChild(1)].leaf_type = "FUNCTION_NAME"
                     /\ fp.f.tree[OnlyChild(1)].value = CalledName(fp.line)
                     /\ Len(fp.f.tree[OnlyChild(1)].leaves) = 1
                     /\ fp.f.tree[OnlyChild(OnlyChild(1))].leaf_type = "FUNCTION_PARAMS"
                     /\ Len(fp.f.tree[OnlyChild(OnlyChild(1))].leaves) = 1
                     /\ fp.f.tree[OnlyChild(OnlyChild(OnlyChild(1)))].leaf_type = "LISTING"
                     /\ Len(fp.f.tree[OnlyChild(OnlyChild(OnlyChild(1)))].leaves) = 2
                     /\ \A i \in 1..2 :
                            /\ Children(fp.f.tree, OnlyChild(OnlyChild(OnlyChild(1))))[i].leaf_type
                                   = "SYMBOL"
                            /\ Children(fp.f.tree, OnlyChild(OnlyChild(OnlyChild(1))))[i].value
                                   = CallArguments(fp.line)[i]
                            /\ Children(fp.f.tree, OnlyChild(OnlyChild(OnlyChild(1))))[i].leaves
                                   = <<>>

\* parse() of MLEN(a, b_End) has returned its three parts, the current leaf
\* is the Root.
C19_Witness ==
    /\ fp # NoObject
    /\ fp.pc = "done"
    /\ fp.line = <<"M", "L", "E", "N", "(", "a", ",", " ", "b", "_", "E", "n", "d", ")">>
    /\ fp.f.parts = << <<"M", "L", "E", "N">>, <<"a">>, <<"b", "_", "E", "n", "d">> >>
    /\ fp.f._current_leaf = 1


\* The operands and operators a chain is written with; in the chains given
\* to the parser each is one character.
ChainTokens(line) ==
    With(SelectSeq(line, LAMBDA c : ~IsSpace(c)), LAMBDA written :
        [i \in 1..Len(written) |-> <<written[i]>>])

\* C20: for a chain A op B op C ... parse() yields one Formula node under
\* the Root that holds every operand and every operator as its children, in
\* order, operands and Operators alternating, and no Formula inside it.
C20_FlatFormula ==
    (ParseEnded /\ fp.line \in OperatorChains)
        => /\ fp.pc = "done"
           /\ fp.f.parts = ChainTokens(fp.line)
           /\ Len(fp.f.tree[1].leaves) = 1
           /\ fp.f.tree[OnlyChild(1)].leaf_type = "FORMULA"
           /\ Len(fp.f.tree[OnlyChild(1)].leaves) = Len(ChainTokens(fp.line))
           /\ \A i \in 1..Len(ChainTokens(fp.line)) :
                  /\ Children(fp.f.tree, OnlyChild(1))[i].value = ChainTokens(fp.line)[i]
                  /\ Children(fp.f.tree, OnlyChild(1))[i].leaves = <<>>
                  /\ IF i % 2 = 0
                     THEN Children(fp.f.tree, OnlyChild(1))[i].leaf_type = "OPERATOR"
                     ELSE Children(fp.f.tree, OnlyChild(1))[i].leaf_type
                              \in {"SYMBOL", "NUMBER"}


----------------------------------------------------------------------------
(* Claims about parentheses, signs and macro parameters.                   *)

\* The tree of fp holds, at leaf n, a Parens whose only child is the Formula
\* of the three parts.
IsParensOfFormula(n, parts) ==
    /\ fp.f.tree[n].leaf_type = "PARENS"
    /\ Len(fp.f.tree[n].leaves) = 1
    /\ fp.f.tree[OnlyChild(n)].leaf_type = "FORMULA"
    /\ Len(fp.f.tree[OnlyChild(n)].leaves) = 3
    /\ \A i \in 1..3 :
           /\ Children(fp.f.tree, OnlyChild(n))[i].value = parts[i]
           /\ Children(fp.f.tree, OnlyChild(n))[i].leaves = <<>>
           /\ Children(fp.f.tree, OnlyChild(n))[i].leaf_type
                  = IF i = 2 THEN "OPERATOR"
                    ELSE IF IsNumeric(parts[i]) THEN "NUMBER" ELSE "SYMBOL"

\* C21: `(A op B)` parses to a Parens whose only child is the Formula
\* [A, op, B], and after the `)` the current leaf is the parent of the
\* Parens; an operator and an operand after the `)` make an outer Formula
\* [Parens, op, operand]; parts are the atoms in order, without parentheses.
C21_ParenFormula ==
    \A left \in Operands, right \in Operands, operator \in ParenOperators,
       rest \in ParenRests :
        (ParseEnded /\ fp.line = ParenFormula(left, operator, right, rest))
            => /\ fp.pc = "done"
               /\ fp.f.parts = <<left, Strip(operator), right>> \o rest.parts
               /\ Len(fp.f.tree[1].leaves) = 1
               /\ IF rest.parts = <<>>
                  THEN /\ IsParensOfFormula(OnlyChild(1), <<left, Strip(operator), right>>)
                       /\ fp.f._current_leaf = fp.f.tree[OnlyChild(1)].parent
                  ELSE /\ fp.f.tree[OnlyChild(1)].leaf_type = "FORMULA"
                       /\ Len(fp.f.tree[OnlyChild(1)].leaves) = 3
                       /\ IsParensOfFormula(fp.f.tree[OnlyChild(1)].leaves[1],
                                            <<left, Strip(operator), right>>)
                       /\ Children(fp.f.tree, OnlyChild(1))[2]
                              = [Leaf(rest.parts[1], "OPERATOR")
                                     EXCEPT !.parent = OnlyChild(1)]
                       /\ Children(fp.f.tree, OnlyChild(1))[3]
                              = [Leaf(rest.parts[2], "NUMBER")
                                     EXCEPT !.parent = OnlyChild(1)]



\* C22: a `+` or `-` right after a Symbol, a Number or a Parens is an
\* Operator of a Formula, and one at the start or right after a comma begins
\* a signed Number: `$00, -$03` is a Listing of the Numbers $00 and -$03,
\* `A - 1` a Formula with the parts A, -, 1.
C22_SignOrOperator ==
    \A case \in SignCases :
        (ParseEnded /\ fp.line = case.line)
            => /\ fp.pc = "done"
               /\ fp.f.parts = case.parts
               /\ Len(fp.f.tree[1].leaves) = 1
               /\ fp.f.tree[OnlyChild(1)].leaf_type = case.leaf_type
               /\ case.leaf_type = "NUMBER" => fp.f.tree[OnlyChild(1)].value = case.parts[1]
               /\ case.leaf_type = "LISTING"
                      => /\ Len(fp.f.tree[OnlyChild(1)].leaves) = 2
                         /\ \A i \in 1..2 :
                                /\ Children(fp.f.tree, OnlyChild(1))[i].leaf_type = "NUMBER"
                                /\ Children(fp.f.tree, OnlyChild(1))[i].value = case.parts[i]
               /\ case.leaf_type = "FORMULA"
                      => /\ Len(fp.f.tree[OnlyChild(1)].leaves) = 3
                         /\ Children(fp.f.tree, OnlyChild(1))[2].leaf_type = "OPERATOR"
                         /\ Children(fp.f.tree, OnlyChild(1))[2].value = case.parts[2]



\* The line without its comment.
Code(line) == Split(line, <<";">>)[1]

\* The leaves of one type below the root of the tree of fp.
LeavesOfType(leaf_type) ==
    {n \in Range(_depth_first_tree_walk(fp.f)) : fp.f.tree[n].leaf_type = leaf_type}

\* The macro parameters a line is written with, in order: each backslash
\* with the character after it.
WrittenMacroParams(line) ==
    With(SelectSeq([i \in 1..Len(line) |-> i], LAMBDA i : line[i] = "\\"), LAMBDA at :
        [k \in 1..Len(at) |-> SubSeq(line, at[k], at[k] + 1)])

\* The parts that begin with a backslash.
MacroParamParts == SelectSeq(fp.f.parts, LAMBDA part : part # <<>> /\ part[1] = "\\")

\* The line of fp holds macro parameters and, besides them, only literals
\* and operators.
OnlyMacroParams ==
    /\ "\\" \in Range(Code(fp.line))
    /\ \/ fp.line \in MacroParamOnlyLines
       \/ fp.line \in ShortLines /\ "A" \notin Range(Code(fp.line))

\* C23: a backslash and the digit 1..9 after it become one MacroParam leaf
\* whose value is the backslash and that digit, and no Symbol or Number
\* holds a backslash; for an expression of macro parameters, literals and
\* operators has_macro_params is true and has_symbols is false.
C23_MacroParam ==
    /\ (ParseEnded /\ fp.line \in MacroParamLines) => fp.pc = "done"
    /\ (fp # NoObject /\ Parsed)
        => /\ \A n \in LeavesOfType("MACRO_PARAM") :
                  /\ Len(fp.f.tree[n].value) = 2
                  /\ fp.f.tree[n].value[1] = "\\"
                  /\ fp.f.tree[n].value[2] \in Range(Digits) \ {"0"}
                  /\ fp.f.tree[n].leaves = <<>>
           /\ Cardinality(LeavesOfType("MACRO_PARAM")) = Len(WrittenMacroParams(Code(fp.line)))
           /\ MacroParamParts = WrittenMacroParams(Code(fp.line))
           /\ \A n \in LeavesOfType("SYMBOL") \cup LeavesOfType("NUMBER") :
                  "\\" \notin Range(fp.f.tree[n].value)
           /\ (OnlyMacroParams /\ ret # NoObject /\ ret.call = "has_macro_params")
                  => ret.result.v = TRUE
           /\ (OnlyMacroParams /\ ret # NoObject /\ ret.call = "has_symbols")
                  => ret.result.v = FALSE

\* `\1 >> 8` is parsed and has_macro_params is read.
C23_Witness ==
    /\ fp # NoObject /\ fp.pc = "done"
    /\ fp.line = <<"\\", "1", " ", ">", ">", " ", "8">>
    /\ fp.f.parts = << <<"\\", "1">>, <<">", ">">>, <<"8">> >>
    /\ \E n \in LeavesOfType("MACRO_PARAM") : fp.f.tree[n].value = <<"\\", "1">>
    /\ ret # NoObject /\ ret.call = "has_macro_params" /\ ret.result.v = TRUE


----------------------------------------------------------------------------
(* The Macro at work: parse_macro() on the lines of a file from a ".macro" *)
(* line on, the macro kept under its name, and expand() of a kept macro.   *)

\* The most lines between the ".macro" line and what ends the lines.
MaxBody == 2

MacroHeads == { <<"M", " ", ".", "m", "a", "c", "r", "o">>, <<" ", "M", " ", ".", "m", "a",
        "c", "r", "o", " ", ";", " ", "t", "w", "o", " ", "p", "a", "r", "a", "m", "e", "t",
        "e", "r", "s">> }
BodyLines == { <<" ", " ", ".", "b", "y", "t", "e", " ", "\\", "1", ",", " ", "\\", "2", " ",
        ";", " ", "c">>, <<>>, <<";", " ", ".", "e", "n", "d", "m">>, <<" ", " ", "L", "D",
        "A", " ", "#", "\\", "2", "\\", "1">> }
MacroTails ==
    { <<>>, << <<".", "e", "n", "d", "m">> >>, << <<" ", ".", "e", "n", "d", "m", " ", ";",
        " ", "e", "n", "d">>, <<"N", "O", "P">> >>, << <<".", "e", "n", "d", "m">>, <<".", "e",
        "n", "d", "m">> >> }

\* The lines parse_macro is called with.
MacroSources ==
    UNION {{<<head>> \o body \o tail :
               head \in MacroHeads, body \in [1..k -> BodyLines], tail \in MacroTails} :
           k \in 0..MaxBody}

\* The arguments expand is called with.
MacroArguments ==
    { << <<"\\", "2">>, <<"B">> >>, <<>>, << <<"1">> >>, << <<"$", "0", "F">>, <<"F", "o", "o">> >>,
        << <<"A">>, <<"B">>, <<"C">> >> }

\* What the caller's list holds after parse_macro took `taken` lines: the
\* lines are popped from a copy of the list (line 28).
PoppedFrom(lines, taken) == SubSeq(lines, taken + 1, Len(lines))
CopiedFrom(lines, taken) == lines

\* parse_macro, tabulated once over the lines it is called with.
ParseMacroOf == [lines \in MacroSources |-> parse_macro(lines)]

\* Macro.parse_macro(lines, position), and the macro kept under its name as
\* the resolver keeps it; the one macro of the lines is defined once.
ParseMacro(lines) ==
    /\ ap._macro_lut = EmptyDict
    /\ ret' = [call |-> "parse_macro", arg |-> lines, result |-> ParseMacroOf[lines],
               caller |-> CopiedFrom(lines, IF ParseMacroOf[lines].ok
                                            THEN Len(ParseMacroOf[lines].v.lines)
                                            ELSE Len(lines))]
    /\ ap' = IF ParseMacroOf[lines].ok
             THEN [ap EXCEPT !._macro_lut = DictSet(@, ParseMacroOf[lines].v.name,
                                                    ParseMacroOf[lines].v.lines)]
             ELSE ap
    /\ UNCHANGED <<indexVars, navVars, fp>>

\* macro.expand(*args) of a kept macro.
Expand(macro_name, args) ==
    /\ macro_name \in DOMAIN ap._macro_lut
    /\ ret' = [call |-> "expand", arg |-> args, lines |-> ap._macro_lut[macro_name],
               result |-> Returned(expand(ap._macro_lut[macro_name], args))]
    /\ UNCHANGED <<indexVars, navVars, ap, fp>>

InitMacro ==
    /\ root_path = AbsRoot
    /\ disk = EmptyDict
    /\ unreadable = {}
    /\ buffers = EmptyDict
    /\ edits = 0
    /\ InitFinder
    /\ ap = NewAssemblyParser /\ fp = NoObject /\ ret = NoObject
    /\ _position_stack = NewTextPositionStack

NextMacro ==
    \/ \E lines \in MacroSources : ParseMacro(lines)
    \/ \E args \in MacroArguments : Expand(<<"M">>, args)

SpecMacro == InitMacro /\ [][NextMacro]_vars


----------------------------------------------------------------------------
(* MenuToolbar: the navigation buttons and the clicks that feed the        *)
(* TextPositionStack (menu_toolbar.py, main_window.py, tab_widget.py).      *)

\* The positions of the model: a file of the project and a cursor position.
NavPositions ==
    {TextPosition(Join(AbsRoot, f), pos) : f \in FileNames, pos \in 0..MaxPos}

\* MenuToolbar.push_position, the slot of TabWidget.text_position_clicked:
\* a click into a document, a search hit, a followed redirect.
push_position(abs_path, block_index) ==
    /\ _position_stack.current_index + 2 <= MaxStack
    /\ _position_stack' = push(_position_stack, abs_path, block_index)
    /\ UNCHANGED <<indexVars, parserVars>>

\* MainWindow._move_to_position, the slot of position_change_requested:
\* open_or_switch_file switches to the tab of the file, or, when the file
\* has none, opens one, and _open_tab emits text_position_clicked(0), which
\* pushes the top of the file.
move_to_position(self, position, has_tab) ==
    IF has_tab THEN self ELSE push(self, position.file_path, 0)

\* MenuToolbar._go_back
_go_back(has_tab) ==
    /\ ~is_at_the_beginning(_position_stack)
    /\ _position_stack' =
          LET self == go_back(_position_stack)
          IN  move_to_position(self, current_entry(self), has_tab)
    /\ UNCHANGED <<indexVars, parserVars>>

\* MenuToolbar._go_forward
_go_forward(has_tab) ==
    /\ ~is_at_the_end(_position_stack)
    /\ has_tab \/ _position_stack.current_index + 3 <= MaxStack
    /\ _position_stack' =
          LET self == go_forward(_position_stack)
          IN  move_to_position(self, current_entry(self), has_tab)
    /\ UNCHANGED <<indexVars, parserVars>>

InitNavigation ==
    /\ root_path = AbsRoot
    /\ disk = EmptyDict
    /\ unreadable = {}
    /\ buffers = EmptyDict
    /\ edits = 0
    /\ InitFinder
    /\ ap = NoObject /\ fp = NoObject /\ ret = NoObject
    /\ _position_stack = NewTextPositionStack

NextNavigation ==
    \/ \E p \in NavPositions : push_position(p.file_path, p.pos_in_text)
    \/ \E has_tab \in BOOLEAN : _go_back(has_tab)
    \/ \E has_tab \in BOOLEAN : _go_forward(has_tab)

SpecNavigation == InitNavigation /\ [][NextNavigation]_vars

----------------------------------------------------------------------------

(* Claims about macros.                                                     *)

\* A line with every backslash and digit N, for an N-th argument there is,
\* replaced by that argument, read from left to right.
RECURSIVE Replaced(_, _)
Replaced(line, args) ==
    IF line = <<>> THEN <<>>
    ELSE IF /\ Len(line) >= 2 /\ line[1] = "\\"
            /\ \E n \in 1..Len(args) : n <= 9 /\ line[2] = Digits[n + 1]
        THEN args[CHOOSE n \in 1..Len(args) : line[2] = Digits[n + 1]]
                 \o Replaced(SubSeq(line, 3, Len(line)), args)
    ELSE <<line[1]>> \o Replaced(Tail(line), args)

\* expand() has returned.
Expanded == ret # NoObject /\ ret.call = "expand"

\* C24, as claimed: expand(args) returns as many lines as the macro holds,
\* in the same order, each with every `\N` replaced by the N-th argument,
\* the `.macro` and the `.endm` line unchanged.
C24_ExpandKeepsEveryLine ==
    Expanded
        => /\ Len(ret.result.v) = Len(ret.lines)
           /\ \A i \in 1..Len(ret.lines) : ret.result.v[i] = Replaced(ret.lines[i], ret.arg)
           /\ ret.result.v[1] = ret.lines[1]
           /\ ret.result.v[Len(ret.lines)] = ret.lines[Len(ret.lines)]

\* The lines of the macro that are not empty.
FilledLines == SelectSeq(ret.lines, LAMBDA line : line # <<>>)

\* A line with `\1` replaced by the first argument, then `\2` by the
\* second, and so on to the n-th.
RECURSIVE ReplacedInTurn(_, _, _)
ReplacedInTurn(line, args, n) ==
    IF n = 0 THEN line
    ELSE Replace(ReplacedInTurn(line, args, n - 1), <<"\\">> \o str(n), args[n])

\* C24, amended: expand(args) returns the lines of the macro that are not
\* empty, in the same order (the blank and comment-only lines of the
\* definition, kept as empty lines, are left out), each with `\1`, `\2`,
\* ... replaced in this order by the first, second, ... argument, a `\N`
\* that an earlier argument brought in included; the `.macro` and the
\* `.endm` line, holding no `\N`, are returned unchanged.
C24_ExpandKeepsFilledLines ==
    Expanded
        => /\ Len(ret.result.v) = Len(FilledLines)
           /\ \A i \in 1..Len(FilledLines) :
                  ret.result.v[i] = ReplacedInTurn(FilledLines[i], ret.arg, Len(ret.arg))
           /\ ret.result.v[1] = ret.lines[1]
           /\ ret.result.v[Len(ret.result.v)] = ret.lines[Len(ret.lines)]

\* A macro with a comment-only line is expanded with two arguments.
C24_Witness ==
    /\ Expanded
    /\ ret.lines = << <<"M", " ", ".", "m", "a", "c", "r", "o">>, <<>>, <<".", "b", "y", "t",
        "e", " ", "\\", "1", ",", " ", "\\", "2">>, <<".", "e", "n", "d", "m">> >>
    /\ ret.arg = << <<"$", "0", "F">>, <<"F", "o", "o">> >>
    /\ ret.result.v = << <<"M", " ", ".", "m", "a", "c", "r", "o">>, <<".", "b", "y", "t", "e",
        " ", "$", "0", "F", ",", " ", "F", "o", "o">>, <<".", "e", "n", "d", "m">> >>



\* parse_macro() has returned or raised.
MacroParsed == ret # NoObject /\ ret.call = "parse_macro"

\* The line, without its comment, holds `.endm`.
EndsMacro(line) == Contains(Strip(Split(line, <<";">>)[1]), <<".", "e", "n", "d", "m">>)

\* C25: parse_macro(lines, position) stores the lines from the `.macro` line
\* up to and including the first later line that holds `.endm` outside a
\* comment, each without its comment and in order, and no line after it; it
\* raises when no such line follows; the list of the caller is as it was.
C25_ParseMacro ==
    MacroParsed
        => /\ ret.result.ok <=> \E i \in 2..Len(ret.arg) : EndsMacro(ret.arg[i])
           /\ ret.result.ok
                  => /\ Len(ret.result.v.lines) \in 2..Len(ret.arg)
                     /\ EndsMacro(ret.arg[Len(ret.result.v.lines)])
                     /\ \A i \in 2..(Len(ret.result.v.lines) - 1) : ~EndsMacro(ret.arg[i])
                     /\ \A i \in 1..Len(ret.result.v.lines) :
                            ret.result.v.lines[i] = Strip(Split(ret.arg[i], <<";">>)[1])
           /\ ~ret.result.ok => StartsWith(ret.result.v, "ValueError")
           /\ ret.caller = ret.arg

\* A definition with comments, a comment-only line that names .endm, and a
\* line after the .endm line is parsed.
C25_Witness ==
    /\ MacroParsed
    /\ ret.arg = << <<" ", "M", " ", ".", "m", "a", "c", "r", "o", " ", ";", " ", "t", "w",
        "o", " ", "p", "a", "r", "a", "m", "e", "t", "e", "r", "s">>, <<";", " ", ".", "e",
        "n", "d", "m">>, <<" ", " ", ".", "b", "y", "t", "e", " ", "\\", "1", ",", " ", "\\",
        "2", " ", ";", " ", "c">>,
                    <<" ", ".", "e", "n", "d", "m", " ", ";", " ", "e", "n", "d">>, <<"N", "O",
        "P">> >>
    /\ ret.result.ok
    /\ ret.result.v.lines = << <<"M", " ", ".", "m", "a", "c", "r", "o">>, <<>>, <<".", "b",
        "y", "t", "e", " ", "\\", "1", ",", " ", "\\", "2">>, <<".", "e", "n", "d", "m">> >>
    /\ ret.caller = ret.arg



----------------------------------------------------------------------------
(* Claims about the tree of a parsed expression, the end of the input,     *)
(* parentheses, byte sizes and filled-in symbols.                          *)

\* The places of leaf n in the lists of leaves of the tree of fp.
PlacesOf(n) ==
    {place \in (DOMAIN fp.f.tree) \X (1..MaxLeaves) :
        /\ place[2] <= Len(fp.f.tree[place[1]].leaves)
        /\ fp.f.tree[place[1]].leaves[place[2]] = n}

\* Every leaf below the root has one parent and one place in its leaves.
OneParentEach ==
    \A n \in Range(_depth_first_tree_walk(fp.f)) :
        /\ Cardinality(PlacesOf(n)) = 1
        /\ \A place \in PlacesOf(n) : fp.f.tree[n].parent = place[1]

\* Every Formula and every Listing has two leaves or more.
TwoLeavesEach ==
    \A n \in LeavesOfType("FORMULA") \cup LeavesOfType("LISTING") :
        Len(fp.f.tree[n].leaves) >= 2

\* Operators, Numbers, Symbols and MacroParams have no leaves.
NoLeavesEach ==
    \A n \in LeavesOfType("OPERATOR") \cup LeavesOfType("NUMBER")
                \cup LeavesOfType("SYMBOL") \cup LeavesOfType("MACRO_PARAM") :
        fp.f.tree[n].leaves = <<>>

\* C26: after a parse() that returned, every leaf below the Root has exactly
\* one parent and is once among its leaves, every Formula and Listing has at
\* least two leaves, and Operators, Numbers, Symbols and MacroParams have
\* none.
C26_TreeInvariant ==
    (fp # NoObject /\ fp.pc = "done")
        => OneParentEach /\ TwoLeavesEach /\ NoLeavesEach



\* The states of the parser in which a symbol or a number is being read.
TokenStates == {"SYMBOL", "BINARY", "DECIMAL", "HEXADECIMAL"}

\* The states parse() may end in.
TerminalStates == {"NEUTRAL", "END"}

\* The input of fp is exhausted in one of the states.
ExhaustedIn(states) ==
    fp.pc = "parse" /\ fp.f._line = <<>> /\ fp.f._state \in states

\* The input of fp is exhausted in a state that is none of the states.
ExhaustedOutside(states) ==
    fp.pc = "parse" /\ fp.f._line = <<>> /\ fp.f._state \notin states

\* C27: when the input is exhausted in the Symbol state or in a number
\* state, parse() adds the token read so far to parts, leaves it in the tree
\* as a Symbol or Number, and returns; when it is exhausted in any other
\* state than Neutral and End, parse() raises; and a lone sign raises.
C27_EndOfInput ==
    /\ [][(FpReturn /\ ExhaustedIn(TokenStates))
              => /\ fp'.pc = "done"
                 /\ fp'.f.parts = Append(fp.f.parts, CurrentLeaf(fp.f).value)
                 /\ fp'.f.tree = fp.f.tree
                 /\ CurrentLeaf(fp.f).value # <<>>
                 /\ CurrentLeaf(fp.f).leaf_type
                        = IF fp.f._state = "SYMBOL" THEN "SYMBOL" ELSE "NUMBER"
                 /\ fp.f._current_leaf \in Range(_depth_first_tree_walk(fp'.f))]_vars
    /\ [][(FpReturn /\ ExhaustedOutside(TokenStates \cup TerminalStates))
              => fp'.pc = "error"]_vars
    /\ []((ParseEnded /\ fp.line \in { <<"-">>, <<" ", "-">>, <<"(", "-">> }) => fp.pc = "error")

\* The input `$0F00` has ended in a number state and parse() has returned
\* with the number as its part.
C27_Witness ==
    /\ fp # NoObject /\ fp.pc = "done"
    /\ fp.line = <<"$", "0", "F", "0", "0">>
    /\ fp.f.parts = << <<"$", "0", "F", "0", "0">> >>
    /\ Children(fp.f.tree, 1) = << [Leaf(<<"$", "0", "F", "0", "0">>,
        "NUMBER") EXCEPT !.parent = 1] >>



\* The number of parentheses open after the text, or -1 once a `)` closes
\* what no `(` has opened.
RECURSIVE OpenAfter(_, _)
OpenAfter(text, open) ==
    IF text = <<>> THEN open
    ELSE IF text[1] = "(" THEN OpenAfter(Tail(text), open + 1)
    ELSE IF text[1] # ")" THEN OpenAfter(Tail(text), open)
    ELSE IF open = 0 THEN -1
    ELSE OpenAfter(Tail(text), open - 1)

\* C28: parse() raises for every expression whose parentheses are not
\* balanced: when a `)` has no open parenthesis before it, and when a `(` is
\* not closed at the end of the input.
C28_UnbalancedRaises ==
    (ParseEnded /\ OpenAfter(Code(fp.line), 0) # 0) => fp.pc = "error"



\* What is said of a size: that it is v bytes, that sizing raises, or
\* nothing.
SizeIs(v) == [said |-> TRUE, ok |-> TRUE, v |-> v]
SizeRaises == [said |-> TRUE, ok |-> FALSE, v |-> 0]
SizeUnsaid == [said |-> FALSE, ok |-> FALSE, v |-> 0]

\* The least number of bytes that hold the value.
LeastBytes(value) == CHOOSE k \in 0..8 : value < 256 ^ k /\ \A j \in 0..(k - 1) : value >= 256 ^ j

\* The size of a literal without its sign: two hexadecimal digits a byte,
\* eight bits a byte, the least number of bytes of a decimal value, one byte
\* a quoted character.
LiteralSize(literal) ==
    IF StartsWith(literal, <<"$">>) THEN SizeIs((Len(literal) - 1) \div 2)
    ELSE IF StartsWith(literal, <<"%">>) THEN SizeIs((Len(literal) - 1) \div 8)
    ELSE IF Len(literal) >= 2 /\ literal[1] = "'" /\ literal[Len(literal)] = "'"
        THEN SizeIs(Len(literal) - 2)
    ELSE IF IsNumeric(literal) THEN SizeIs(LeastBytes(IntOfBase(literal, 10)))
    ELSE SizeUnsaid

\* The size of a Formula or a Listing of leaves of the sizes.
SizeOfAll(sizes, of_formula) ==
    IF \E i \in 1..Len(sizes) : ~sizes[i].said THEN SizeUnsaid
    ELSE IF \E i \in 1..Len(sizes) : ~sizes[i].ok THEN SizeRaises
    ELSE IF of_formula THEN SizeIs(MaxOf(sizes))
    ELSE SizeIs(SumOf(sizes))

\* The size of leaf n of the tree as C29 gives it.
RECURSIVE ByteSize(_, _)
ByteSize(tree, n) ==
    IF tree[n].leaf_type \in {"ROOT", "FUNCTION_NAME", "PARENS", "FUNCTION_PARAMS"}
        THEN IF Len(tree[n].leaves) = 1 THEN ByteSize(tree, tree[n].leaves[1])
             ELSE SizeUnsaid
    ELSE IF tree[n].leaf_type = "NUMBER"
        THEN LiteralSize(removeprefix(tree[n].value, <<"-">>))
    ELSE IF tree[n].leaf_type \in {"FORMULA", "LISTING"}
        THEN IF Len(tree[n].leaves) < 2 THEN SizeUnsaid
             ELSE SizeOfAll([i \in 1..Len(tree[n].leaves) |->
                                ByteSize(tree, tree[n].leaves[i])],
                            tree[n].leaf_type = "FORMULA")
    ELSE IF tree[n].leaf_type = "OPERATOR" THEN SizeIs(0)
    ELSE SizeRaises

\* _count_leaf_byte_size(leaf) has returned or raised.
Sized == ret # NoObject /\ ret.call = "_count_leaf_byte_size"

\* C29: the byte size of a Number is the byte length of its literal (two
\* hexadecimal digits a byte, eight bits a byte, the least number of bytes
\* of a decimal value, one byte a quoted character), that of a Root,
\* FunctionName, Parens or FunctionParams the size of its only child, that
\* of a Formula the largest and that of a Listing the sum of the sizes of its
\* children, and sizing a Symbol or a MacroParam raises.
C29_ByteSize ==
    (Sized /\ ByteSize(fp.f.tree, ret.arg).said)
        => /\ ret.result.ok = ByteSize(fp.f.tree, ret.arg).ok
           /\ ret.result.ok => ret.result.v = ByteSize(fp.f.tree, ret.arg).v



\* The parser g is the parser f with the symbols of the dict filled in: the
\* Symbols whose value is a key are Numbers of the value of the key, and
\* every other leaf, the shape of the tree and the rest of the parser are as
\* they were.
FilledIn(f, g, symbols) ==
    /\ g = [f EXCEPT !.tree = g.tree]
    /\ Len(g.tree) = Len(f.tree)
    /\ \A n \in DOMAIN f.tree :
           IF f.tree[n].leaf_type = "SYMBOL" /\ f.tree[n].value \in DOMAIN symbols
           THEN g.tree[n] = [value |-> symbols[f.tree[n].value], leaf_type |-> "NUMBER",
                             parent |-> f.tree[n].parent, leaves |-> f.tree[n].leaves]
           ELSE g.tree[n] = f.tree[n]

\* C30: fill_in_symbols(map) makes every Symbol whose value is a key of map
\* a Number of the mapped value and changes nothing else; when every Symbol
\* of the tree is a key, has_symbols is false afterwards.
C30_FillInSymbols ==
    [][(\E symbols \in SymbolMaps : FillInSymbols(symbols))
           => /\ FilledIn(fp.f, fp'.f, ret'.arg)
              /\ (\A n \in LeavesOfType("SYMBOL") : fp.f.tree[n].value \in DOMAIN ret'.arg)
                     => ~has_symbols(fp'.f)]_vars

\* The symbol A of `A B` has been filled in and the symbol B has not.
C30_Witness ==
    /\ fp # NoObject /\ fp.pc = "filled"
    /\ fp.line = <<"A", " ", "B">>
    /\ ret # NoObject /\ ret.call = "fill_in_symbols" /\ DOMAIN ret.arg = { <<"A">> }
    /\ Children(fp.f.tree, 1) = << [Leaf(<<"$", "0", "F">>, "NUMBER") EXCEPT !.parent = 1],
                                   [Leaf(<<"B">>, "SYMBOL") EXCEPT !.parent = 1] >>


\* The operator a binary expression is written with: what stands between
\* its two one-character operands.
WrittenOperator(line) == Strip(SubSeq(line, 2, Len(line) - 1))

\* C31: for every operator op of OPERATORS, parse() of `A op B` returns,
\* and the tree holds exactly one Operator leaf, whose value is op (both
\* characters of a shift operator in the one leaf), between the two operands
\* under one Formula.
C31_OperatorLeaf ==
    (ParseEnded /\ fp.line \in BinaryExpressions)
        => /\ fp.pc = "done"
           /\ Cardinality(LeavesOfType("OPERATOR")) = 1
           /\ fp.f.tree[OnlyChild(1)].leaf_type = "FORMULA"
           /\ Len(fp.f.tree[OnlyChild(1)].leaves) = 3
           /\ Children(fp.f.tree, OnlyChild(1))[1]
                  = [Leaf(<<"A">>, "SYMBOL") EXCEPT !.parent = OnlyChild(1)]
           /\ Children(fp.f.tree, OnlyChild(1))[2].leaf_type = "OPERATOR"
           /\ Children(fp.f.tree, OnlyChild(1))[2].value = WrittenOperator(fp.line)
           /\ Children(fp.f.tree, OnlyChild(1))[3]
                  = [Leaf(<<"B">>, "SYMBOL") EXCEPT !.parent = OnlyChild(1)]


\* A numeral of one base: "%" and binary digits, "$" and hexadecimal digits,
\* or decimal digits; as long as a token is being read it may be empty.
OnlyOf(s, digits) == \A i \in 1..Len(s) : s[i] \in digits
IsNumeral(s) ==
    IF StartsWith(s, <<"%">>) THEN OnlyOf(Tail(s), {"0", "1"})
    ELSE IF StartsWith(s, <<"$">>) THEN OnlyOf(Upper(Tail(s)), Range(HexDigits))
    ELSE OnlyOf(s, Range(Digits))

\* The first Number leaf of the tree of fp, 0 without one.
FirstNumber ==
    IF LeavesOfType("NUMBER") = {} THEN 0
    ELSE CHOOSE n \in LeavesOfType("NUMBER") : \A m \in LeavesOfType("NUMBER") : n <= m

\* C32: a numeral token ends at the first character that is no digit of its
\* base.  No Number leaf ever holds anything but a numeral of one base, and
\* when parse() of a numeral followed by such a character has ended, the
\* first Number leaf is the numeral without that character.
C32_NumeralEnds ==
    /\ (fp # NoObject /\ fp.line \in NumeralLines)
           => \A n \in LeavesOfType("NUMBER") : IsNumeral(fp.f.tree[n].value)
    /\ \A case \in NumeralCases :
           (ParseEnded /\ fp.line = case.line)
               => FirstNumber # 0 /\ fp.f.tree[FirstNumber].value = case.token


----------------------------------------------------------------------------
(* Claims about the byte-offset map of the byte-layout resolver.           *)

\* The offset in the ROM at which the next contribution begins, and the
\* position of the line the step of pass 2 is on.
PosInRom(a) == a._current_prg_offset + a._current_byte_offset
LineOfStep == AsmPosition(ap.file, ap._line_co + 1, 0)

\* The step of pass 2 began a contribution: it wrote to the map, or it moved
\* the offset in the bank and is not the line "org $D800".
BeganContribution ==
    \/ ap'._bytes_to_lines # ap._bytes_to_lines
    \/ /\ ap'._current_byte_offset # ap._current_byte_offset
       /\ data_source_strip_comment(Strip(Replace(ap.lines[1], <<"\t">>, <<" ">>))) # KnownBadLine

\* C33, as claimed: what the map holds for an offset is the position of the
\* first line that began a contribution there.  A step of pass 2 leaves
\* every recorded item as it is, and what it appends is the position of its
\* own line.
C33_FirstLineKept ==
    [][ApPass2Step
          => /\ Len(ap'._bytes_to_lines) >= Len(ap._bytes_to_lines)
             /\ \A i \in 1..Len(ap'._bytes_to_lines) :
                    IF i <= Len(ap._bytes_to_lines)
                    THEN ap'._bytes_to_lines[i] = ap._bytes_to_lines[i]
                    ELSE ap'._bytes_to_lines[i].value = LineOfStep]_vars

\* C33, amended: what the map holds for an offset is the position of the
\* last line that began a contribution there.  A step of pass 2 keeps the
\* recorded offsets in their places, changes no position but to that of its
\* own line, and when it began a contribution, the offset it began at holds
\* the position of its line.
C33_LastLineKept ==
    [][ApPass2Step
          => /\ Len(ap'._bytes_to_lines) >= Len(ap._bytes_to_lines)
             /\ \A i \in 1..Len(ap._bytes_to_lines) :
                    ap'._bytes_to_lines[i].key = ap._bytes_to_lines[i].key
             /\ \A i \in 1..Len(ap'._bytes_to_lines) :
                    \/ i <= Len(ap._bytes_to_lines)
                           /\ ap'._bytes_to_lines[i] = ap._bytes_to_lines[i]
                    \/ ap'._bytes_to_lines[i].value = LineOfStep
             /\ BeganContribution
                    => [key |-> PosInRom(ap), value |-> LineOfStep]
                           \in Range(ap'._bytes_to_lines)]_vars

\* The run over the bank file of a text of no bytes and a NOP is done: both
\* lines began at offset 0, and the map holds line 2 for it.
C33_Witness ==
    /\ ap.pc = "done"
    /\ disk[prg000_asm] = << <<".", "b", "y", "t", "e", " ", "\"", "\"">>, <<"N", "O", "P">> >>
    /\ ap._bytes_to_lines = << [key |-> 0, value |-> AsmPosition(prg000_asm, 2, 0)] >>


\* C40: during a byte-accounting run the offsets are added to the map in
\* strictly increasing order: at every moment of the run, each key of the
\* map is greater than every key recorded before it (the order that the
\* scan of closest_pos_for_byte takes for granted).
C40_OffsetsIncrease ==
    \A i \in 1..Len(ap._bytes_to_lines) : \A j \in 1..Len(ap._bytes_to_lines) :
        i < j => ap._bytes_to_lines[i].key < ap._bytes_to_lines[j].key


\* C34: after the directives .inesprg P, .ineschr C, .inesmap M and
\* .inesmir R of the entry file are processed, with M and R in 0..15 (and
\* bank counts that fit a byte), the header has byte 4 = P, byte 5 = C and
\* byte 6 = (M << 4) | R.
C34_HeaderOfDirectives ==
    \A prg_count \in CountValues \cap 0..255, chr_count \in CountValues \cap 0..255,
       mapper \in MapperValues \cap 0..15, mirror \in MirrorValues \cap 0..15 :
        (/\ ret # NoObject
         /\ ret.call = "ines_header"
         /\ ap.pc = "done"
         /\ disk = HeaderFile(prg_count, chr_count, mapper, mirror))
            => /\ ret.result.ok
               /\ ret.result.v[5] = prg_count
               /\ ret.result.v[6] = chr_count
               /\ ret.result.v[7] = BitOr(mapper * 16, mirror)


\* C37: parse() terminates on every line: a parser that is in parse()
\* comes to its return or to an error; no states of the loop repeat forever.
C37_ParseTerminates == (fp # NoObject /\ fp.pc = "parse") ~> ParseEnded

\* parse() of a line of five characters has returned with nothing left of
\* the line.
C37_Witness ==
    /\ ParseEnded
    /\ fp.pc = "done"
    /\ Len(fp.line) >= 5
    /\ fp.f._line = <<>>


----------------------------------------------------------------------------
(* Claims about names that leave the index. *)

\* The run of thread t that publishes in this step is an incremental scan of
\* file f, in whose published definitions name n had its origin before, and
\* no file of the texts the run was requested for defines n.
RemovedByIncrementalScan(t, f, n) ==
    /\ Publishes(t) /\ ~run[t].complete
    /\ requested[t].open_file = Join(root_path, f)
    /\ n \in DOMAIN startPub[t].defs
    /\ startPub[t].defs[n].origin_file = MkPath(FALSE, f)
    /\ n \notin DOMAIN FullScanDefinitions(EmptyDict, requested[t].texts, 1)

\* C35: after an incremental scan of a changed file in which a name that
\* was defined in that file before the edit is no longer defined anywhere,
\* the published definitions map has no entry for that name and the
\* published name-to-references map holds no reference set for it.
C35_RemovedNamePurged ==
    [][\A t \in Threads : \A f \in FileNames : \A n \in AllNames :
         RemovedByIncrementalScan(t, f, n)
            => /\ n \notin DOMAIN definitions'
               /\ n \notin DOMAIN name_to_references']_vars


\* The run of thread t that publishes in this step is an incremental scan of
\* file f; the published definitions were those of a complete parse of the
\* texts of the previous run, and only f has changed since.
IncrementalScanInChain(t, f) ==
    /\ Publishes(t) /\ ~run[t].complete
    /\ requested[t].open_file = Join(root_path, f)
    /\ lastRun.outcome = "ok"
    /\ lastRun.defs = FullScanDefinitions(EmptyDict, lastRun.texts, 1)
    /\ \A g \in FileNames \ {f} : requested[t].texts[g] = lastRun.texts[g]

\* C38: after a full scan followed by single-file edits, each followed by
\* an incremental scan of the edited file, the published definitions map is
\* the map a fresh full scan of the current file contents would publish,
\* also when a name is or was defined in more than one file.  (Stated as the
\* step of the induction: each incremental scan of the chain keeps it so.)
C38_IncrementalEqualsFullScan ==
    [][\A t \in Threads : \A f \in FileNames :
         IncrementalScanInChain(t, f)
            => definitions' = FullScanDefinitions(EmptyDict,
                                                  requested[t].texts, 1)]_vars


----------------------------------------------------------------------------
(* Claims about the index the IDE ends with. *)

\* The names file f defines in the given texts.
DefinedIn(texts, f) ==
    DOMAIN DefinitionsOfLines(EmptyDict, texts[f], 1, MkPath(FALSE, f))

\* No text modification is waiting for its re-index (no timer runs), no
\* requested run is queued or executing, Load Disassembly is not under way,
\* and the last run to end published.  The root is ".", with which no run of
\* the IDE ends in an error: every requested run has completed without one.
ModificationsSettled ==
    /\ root_path = CwdRoot
    /\ DOMAIN timer = {}
    /\ queue = <<>>
    /\ \A t \in Threads : run[t].pc = "idle"
    /\ lastRun.outcome = "ok"

\* C36: last writer wins: once text modifications have stopped and every
\* requested run has completed without error, the published index is the one
\* of the latest text of every file (the tab's text where the file is open,
\* the file on disk otherwise).  Stated for the definitions, the part of the
\* index that depends on the texts alone, and for texts in which no name is
\* defined by both files, where the order of the files does not matter.
C36_LastWriterWins ==
    (/\ ModificationsSettled
     /\ DefinedIn(CurrentTexts, ScanFiles[1])
           \cap DefinedIn(CurrentTexts, ScanFiles[2]) = {})
        => definitions = FullScanDefinitions(EmptyDict, CurrentTexts, 1)


----------------------------------------------------------------------------
(* Claims about the history of positions. *)

\* The stack has position on top, as its last and as its current entry.
OnTop(self, position) ==
    /\ self.stack # <<>>
    /\ self.stack[Len(self.stack)] = position
    /\ self.current_index = Len(self.stack) - 1

\* The entries of after below its top are entries old had up to its current
\* one, in place: nothing of the forward history is left.
ForwardHistoryDiscarded(old, after) ==
    /\ Len(after.stack) - 1 <= old.current_index + 1
    /\ \A i \in 1..(Len(after.stack) - 1) : after.stack[i] = old.stack[i]

\* C39: in every sequence of push, go_back (only when not at the beginning)
\* and go_forward (only when not at the end), a non-empty stack has
\* 0 <= current_index <= len(stack) - 1, and right after every push the
\* pushed position is the last and the current entry: the forward history
\* is gone, and a current entry at position 0 of the same file has been
\* replaced, not kept below the pushed one.
C39_StackNavigation ==
    /\ [](_position_stack.stack # <<>>
            => /\ 0 <= _position_stack.current_index
               /\ _position_stack.current_index
                     <= Len(_position_stack.stack) - 1)
    /\ [][\A p \in NavPositions :
            push_position(p.file_path, p.pos_in_text)
               => /\ OnTop(_position_stack', p)
                  /\ ForwardHistoryDiscarded(_position_stack, _position_stack')
                  /\ Len(_position_stack'.stack) >= 2
                        => _position_stack'.stack[Len(_position_stack'.stack) - 1]
                              # TextPosition(p.file_path, 0)]_vars

\* The user went back from the third of three positions to the first and
\* forward again to the second.
C39_Witness ==
    /\ Len(_position_stack.stack) = 3
    /\ _position_stack.current_index = 1
    /\ _position_stack.stack[1].pos_in_text = 0

====
